---- MODULE Spec2Model ----
(***************************************************************************)
(* DockerService (services/docker_service.py) driven against a Docker      *)
(* runtime.  The runtime is the state the service's calls read and change: *)
(* containers, networks, the relay's network attachments and the relay's   *)
(* tailscale-serve table.  Every service method is a small process: one    *)
(* action per runtime call it issues, together with the Python code around *)
(* that call.  A runtime call answers as the runtime's state dictates, or  *)
(* fails with an error.                                                    *)
(***************************************************************************)
EXTENDS Integers, Sequences, FiniteSets, TLC

VARIABLES
  daemonUp,     \* the Docker daemon answers ping
  constructed,  \* DockerService.__init__ has run
  client,       \* self.client: {} is None, {"DockerClient"} a client object
  containers,   \* runtime: container id -> container
  networks,     \* runtime: network id -> network
  relayNets,    \* runtime: ids of the networks the relay is connected to
  routes,       \* relay: tailscale serve table, external port -> target
  nextId,       \* runtime: the next fresh object id
  nops,         \* service methods invoked so far
  ncreates,     \* creating methods among them
  nfaults,      \* runtime calls that failed for a reason outside this state
  handles,      \* the group handles the caller has been returned
  active,       \* the caller's threads that invoke methods
  fr            \* per thread: the frame of the method it runs

vars == <<daemonUp, constructed, client, containers, networks, relayNets,
          routes, nextId, nops, ncreates, nfaults, handles, active, fr>>

runtime == <<containers, networks, relayNets, routes, nextId>>

-----------------------------------------------------------------------------
(* Bounds *)

\* service methods invoked in one behaviour
MaxOps == 2

\* creating methods (create_container, create_network,
\* create_container_group) among them
MaxCreates == 1

\* runtime calls that fail for a reason outside the modelled state
MaxFaults == 2

\* entries of the longest containers_config
MaxGroup == 2

-----------------------------------------------------------------------------
(* Inputs *)

Threads == {1, 2}

Ports == {30010, 30011}

NetNames == {"net-a", "net-b"}

Prefixes == {"grp-a", "grp-b"}

Uuids == {"u1", "u2"}

\* a container name is <<name_prefix, name>>; name=None is NoName
NoName == <<"", "">>

RelayName == <<"", "tailscale-challenges">>

\* a Python dict is a function; d.update(e) and {**d, **e} let e win
DictUpdate(d, e) == e @@ d

EmptyDict == [k \in {} |-> ""]

DictGet(d, k) == IF k \in DOMAIN d THEN {d[k]} ELSE {}

\* labels arguments a caller passes (None is EmptyDict: labels or {})
CallerLabels ==
  { EmptyDict,
    "ctfd.instance_uuid" :> "u1",
    ("ctfd.instance_uuid" :> "u2") @@ ("ctfd.managed" :> "false") }

-----------------------------------------------------------------------------
(* The runtime *)

\* a container the runtime holds
Container(name, labels, mode, ports, hardened, autoRemove, origin) ==
  [ name |-> name, labels |-> labels, status |-> "running", net |-> {},
    mode |-> mode, ports |-> ports, hardened |-> hardened,
    autoRemove |-> autoRemove, origin |-> origin ]

\* the relay: long-lived, started outside the service, no labels
RelayContainer ==
  Container(RelayName, EmptyDict, "bridge", {}, FALSE, FALSE, "external")

\* a container of another owner: a correlation id, no management label
ForeignContainer ==
  Container(<<"", "foreign">>, "ctfd.instance_uuid" :> "u2", "bridge", {},
            FALSE, FALSE, "external")

Network(name, labels, internal) ==
  [ name |-> name, labels |-> labels, driver |-> "bridge",
    internal |-> internal ]

ContainersNamed(name) ==
  { c \in DOMAIN containers : containers[c].name = name }

NetworksNamed(name) == { n \in DOMAIN networks : networks[n].name = name }

RelayIds == ContainersNamed(RelayName)

Running(c) == c \in DOMAIN containers /\ containers[c].status = "running"

PublishedPorts ==
  UNION { containers[c].ports : c \in { d \in DOMAIN containers : Running(d) } }

\* a network with an active endpoint cannot be removed
InUse(n) ==
  \/ n \in relayNets
  \/ \E c \in DOMAIN containers : Running(c) /\ n \in containers[c].net

Drop(f, x) == [ y \in DOMAIN f \ {x} |-> f[y] ]

\* what a runtime call may answer: what the state dictates (nat), or one of
\* the failures inj the state does not explain (daemon or relay trouble)
Answers(nat, inj) == nat \cup (IF nfaults < MaxFaults THEN inj ELSE {})

Answer(natural) == Answers({natural}, {"error"})

Charge(nat, out) == nfaults' = IF out \in nat THEN nfaults ELSE nfaults + 1

RtNone == UNCHANGED runtime

RtRun(c) ==
  /\ containers' = (nextId :> c) @@ containers
  /\ nextId' = nextId + 1
  /\ UNCHANGED <<networks, relayNets, routes>>

\* stop: the container exits; with auto_remove the runtime removes it, at
\* once (gone) or later (AutoRemove)
RtStop(c, gone) ==
  /\ containers' = IF gone THEN Drop(containers, c)
                   ELSE [containers EXCEPT ![c].status = "exited"]
  /\ UNCHANGED <<networks, relayNets, routes, nextId>>

RtRemove(c) ==
  /\ containers' = Drop(containers, c)
  /\ UNCHANGED <<networks, relayNets, routes, nextId>>

RtNetCreate(n) ==
  /\ networks' = (nextId :> n) @@ networks
  /\ nextId' = nextId + 1
  /\ UNCHANGED <<containers, relayNets, routes>>

RtNetRemove(n) ==
  /\ networks' = Drop(networks, n)
  /\ UNCHANGED <<containers, relayNets, routes, nextId>>

RtConnect(n) ==
  /\ relayNets' = relayNets \cup {n}
  /\ UNCHANGED <<containers, networks, routes, nextId>>

RtDisconnect(n) ==
  /\ relayNets' = relayNets \ {n}
  /\ UNCHANGED <<containers, networks, routes, nextId>>

RtServe(port, target) ==
  /\ routes' = (port :> target) @@ routes
  /\ UNCHANGED <<containers, networks, relayNets, nextId>>

\* an unbind that resets the relay's whole serve configuration
RtServeReset(port) ==
  /\ routes' = << >>
  /\ UNCHANGED <<containers, networks, relayNets, nextId>>

RtServeOff(port) ==
  /\ routes' = Drop(routes, port)
  /\ UNCHANGED <<containers, networks, relayNets, nextId>>

\* how containers.get / networks.get answer
GetContainer(c) == IF c \in DOMAIN containers THEN "ok" ELSE "notfound"

GetNetwork(n) == IF n \in DOMAIN networks THEN "ok" ELSE "notfound"

GetRelay == IF RelayIds # {} THEN "ok" ELSE "notfound"

\* how container.stop answers: an auto_remove container may be gone by the
\* time the call returns
Stop(c) ==
  IF c \notin DOMAIN containers THEN {"notfound"}
  ELSE IF containers[c].autoRemove THEN {"ok", "ok_gone"}
  ELSE {"ok"}

\* how container.remove answers
Remove(c) == {GetContainer(c)}

\* how network.remove answers
NetRemove(n) ==
  IF n \notin DOMAIN networks THEN {"notfound"}
  ELSE IF InUse(n) THEN {"in_use"}
  ELSE {"ok"}

\* how containers.run answers for the container c, to be attached to the
\* networks named nets
Run(c, nets) ==
  IF \/ c.name # NoName /\ ContainersNamed(c.name) # {}
     \/ \E n \in nets : NetworksNamed(n) = {}
     \/ c.ports \cap PublishedPorts # {}
     \/ c.mode = "shared" /\ RelayIds = {}
  THEN {"api_error"}
  ELSE {"ok"}

RunFailures == {"image_not_found", "api_error", "error"}

-----------------------------------------------------------------------------
(* Frames: the method a thread runs, its position and its local variables *)

\* an exception: the statement that raised it and what it says
Err(at, what) == [ at |-> at, what |-> what ]

NotConnected == Err("is_connected", "Docker is not connected")

NoResult == [ kind |-> "none", val |-> Err("", "") ]

IdleFrame ==
  [ op |-> "idle", pc |-> "idle", args |-> EmptyDict,
    created_containers |-> <<>>, network |-> {}, ts_connected |-> FALSE,
    ts_serve_port |-> {}, entry_idx |-> {}, i |-> 1, listed |-> <<>>,
    success |-> TRUE, err |-> Err("", ""), result |-> NoResult,
    calls |-> <<>>, reachable |-> FALSE, connected |-> FALSE, pre |-> <<>> ]

Returned(f, v) ==
  [ f EXCEPT !.pc = "done", !.result = [ kind |-> "return", val |-> v ] ]

Raised(f, e) ==
  [ f EXCEPT !.pc = "done", !.result = [ kind |-> "raise", val |-> e ] ]


At(f, pc) == [ f EXCEPT !.pc = pc ]

\* the runtime call `call` was issued at f.pc, in round f.i of the loop if in
\* one, and answered `out`, which the runtime's state explains (out in nat)
\* or does not (injected)
Called(f, call, nat, out) ==
  [ f EXCEPT !.calls = Append(@, [ pc |-> f.pc, i |-> f.i, call |-> call,
                                   out |-> out, injected |-> out \notin nat ]) ]

Idle(t) == fr[t].pc \in {"idle", "done"}

\* a probe that takes a client object for a live session
HasClient == client # {}

\* DockerService.is_connected
is_connected == client # {} /\ daemonUp

\* what the runtime holds
Snapshot ==
  [ containers |-> containers, networks |-> networks,
    relayNets |-> relayNets, routes |-> routes ]

\* the frame of a method just entered: is_connected() has been evaluated
\* (it pings only when there is a client)
Entered(op, args) ==
  [ IdleFrame EXCEPT !.op = op, !.args = args, !.pc = "entered",
      !.calls = IF client # {}
                THEN << [ pc |-> "entered", i |-> 1, call |-> "ping",
                          out |-> IF daemonUp THEN "ok" ELSE "error",
                          injected |-> FALSE ] >>
                ELSE <<>>,
      !.reachable = daemonUp, !.connected = is_connected, !.pre = Snapshot ]

\* a caller thread invokes a method
Invoke(t) ==
  /\ constructed
  /\ t \in active
  /\ Idle(t)
  /\ nops < MaxOps
  /\ nops' = nops + 1
  /\ UNCHANGED <<daemonUp, constructed, client, active, nfaults, handles>>
  /\ RtNone

\* a caller thread invokes a method that creates
InvokeCreate(t) ==
  /\ Invoke(t)
  /\ ncreates < MaxCreates
  /\ ncreates' = ncreates + 1

\* a caller thread invokes a method that tears down or lists
InvokeOther(t) == Invoke(t) /\ UNCHANGED ncreates

\* a method in progress takes a step
Step(t, op, pc) ==
  /\ fr[t].op = op
  /\ fr[t].pc = pc
  /\ UNCHANGED <<daemonUp, constructed, client, active, nops, ncreates>>

\* a step that issues no runtime call
Pure == RtNone /\ UNCHANGED nfaults

SetFrame(t, f) == fr' = [ fr EXCEPT ![t] = f ]

-----------------------------------------------------------------------------
(* Construction and the environment *)

\* DockerService._connect, called by __init__
Connect ==
  /\ ~constructed
  /\ constructed' = TRUE
  /\ client' = IF daemonUp THEN {"DockerClient"} ELSE {}
  /\ UNCHANGED <<daemonUp, runtime, nops, ncreates, nfaults, handles, active, fr>>

\* the daemon becomes unreachable, or reachable again, between two methods
DaemonFlip ==
  /\ constructed
  /\ \A t \in Threads : Idle(t)
  /\ daemonUp' = ~daemonUp
  /\ UNCHANGED <<constructed, client, runtime, nops, ncreates, nfaults,
                 handles, active, fr>>

\* the runtime removes an exited auto_remove container
AutoRemove ==
  /\ \E c \in DOMAIN containers :
       /\ containers[c].status = "exited"
       /\ containers[c].autoRemove
       /\ RtRemove(c)
  /\ UNCHANGED <<daemonUp, constructed, client, nops, ncreates, nfaults,
                 handles, active, fr>>

-----------------------------------------------------------------------------
(* create_container *)

\* the keyword arguments a caller passes (image, command, environment and
\* the resource limits do not steer the method)
CreateContainerArgs ==
  { [ host_port |-> x[1], ports |-> x[2], network |-> x[3],
      use_traefik |-> x[4], network_mode |-> x[5], name |-> NoName,
      labels |-> lb ] :
      x \in { << {30010}, {}, {}, FALSE, {} >>,
              << {}, {}, {"net-a"}, TRUE, {} >>,
              << {30010}, {30011}, {}, FALSE, {"container:tailscale-challenges"} >>,
              << {}, {}, {"net-a"}, FALSE, {"container:tailscale-challenges"} >> },
      lb \in CallerLabels }

\* container_labels = labels or {}; container_labels.update({...})
ContainerLabels(labels) ==
  DictUpdate(labels, ("ctfd.managed" :> "true") @@ ("ctfd.plugin" :> "containers"))

\* the keyword arguments of the containers.run call create_container makes:
\* the container asked for and the networks it names
CreateContainerRequest(a) ==
  IF a.network_mode # {}
  THEN [ c |-> Container(a.name, ContainerLabels(a.labels), "shared", {},
                         TRUE, TRUE, "create_container"),
         nets |-> {} ]
  ELSE LET ports_config ==
             IF ~a.use_traefik
             THEN (IF a.ports # {} THEN a.ports ELSE a.host_port)
             ELSE {}
       IN [ c |-> Container(a.name, ContainerLabels(a.labels),
                            IF a.network # {} THEN "network" ELSE "bridge",
                            ports_config, TRUE, TRUE, "create_container"),
            nets |-> a.network ]

\* the container as the runtime holds it, attached to the networks named
Attached(c, nets) ==
  [ c EXCEPT !.net = UNION { NetworksNamed(n) : n \in nets } ]

\* the except clauses of create_container
CreateContainerError(out) ==
  CASE out = "image_not_found" -> Err("containers.run", "Docker image not found")
    [] out = "api_error" -> Err("containers.run", "Failed to create container")
    [] OTHER -> Err("containers.run", out)

create_container(t) ==
  \E a \in CreateContainerArgs :
    /\ InvokeCreate(t)
    /\ LET f == Entered("create_container", a)
       IN SetFrame(t, IF ~is_connected
                      THEN Raised(f, NotConnected)
                      ELSE At(f, "run"))

create_container_run(t) ==
  /\ Step(t, "create_container", "run")
  /\ UNCHANGED handles
  /\ LET a == fr[t].args
         r == CreateContainerRequest(a)
         nat == Run(r.c, r.nets)
     IN \E out \in Answers(nat, RunFailures) :
          LET f == Called(fr[t], "containers.run", nat, out)
          IN /\ Charge(nat, out)
             /\ IF out = "ok"
                THEN /\ RtRun(Attached(r.c, r.nets))
                     /\ SetFrame(t, Returned(f,
                          [ container_id |-> nextId, status |-> "running",
                            port |-> a.host_port ]))
                ELSE /\ RtNone
                     /\ SetFrame(t, Raised(f, CreateContainerError(out)))

-----------------------------------------------------------------------------
(* stop_container *)

\* ids a caller may hold: of objects that exist, existed, or never existed
KnownIds == 1 .. nextId

stop_container(t) ==
  \E cid \in KnownIds :
    /\ InvokeOther(t)
    /\ LET f == Entered("stop_container", [ container_id |-> cid ])
       IN SetFrame(t, IF ~is_connected THEN Returned(f, FALSE) ELSE At(f, "get"))

\* a handler that takes a container not found for a failure
StopContainerNotFoundFails(f, out) == Returned(f, FALSE)

\* a handler that lets every error but NotFound through to the caller
StopContainerReraises(f, out) ==
  IF out = "notfound" THEN Returned(f, TRUE)
  ELSE Raised(f, Err("stop_container", out))

\* except docker.errors.NotFound: return True; except Exception: return False
StopContainerExcept(f, out) ==
  IF out = "notfound" THEN Returned(f, TRUE) ELSE Returned(f, FALSE)

stop_container_get(t) ==
  /\ Step(t, "stop_container", "get")
  /\ UNCHANGED handles
  /\ RtNone
  /\ LET nat == {GetContainer(fr[t].args.container_id)}
     IN \E out \in Answers(nat, {"error"}) :
          LET f == Called(fr[t], "containers.get", nat, out)
          IN /\ Charge(nat, out)
             /\ SetFrame(t, IF out = "ok" THEN At(f, "stop")
                            ELSE StopContainerExcept(f, out))

stop_container_stop(t) ==
  /\ Step(t, "stop_container", "stop")
  /\ UNCHANGED handles
  /\ LET cid == fr[t].args.container_id
         nat == Stop(cid)
     IN \E out \in Answers(nat, {"error"}) :
          LET f == Called(fr[t], "container.stop", nat, out)
          IN /\ Charge(nat, out)
             /\ IF out \in {"ok", "ok_gone"}
                THEN RtStop(cid, out = "ok_gone") /\ SetFrame(t, At(f, "remove"))
                ELSE RtNone /\ SetFrame(t, StopContainerExcept(f, out))

stop_container_remove(t) ==
  /\ Step(t, "stop_container", "remove")
  /\ UNCHANGED handles
  /\ LET cid == fr[t].args.container_id
         nat == Remove(cid)
     IN \E out \in Answers(nat, {"error"}) :
          LET f == Called(fr[t], "container.remove", nat, out)
          IN /\ Charge(nat, out)
             /\ IF out = "ok"
                THEN RtRemove(cid) /\ SetFrame(t, Returned(f, TRUE))
                ELSE RtNone /\ SetFrame(t, StopContainerExcept(f, out))

-----------------------------------------------------------------------------
(* list_managed_containers and cleanup_expired_containers *)

RECURSIVE Descending(_)
\* the elements of a set of ids, the most recent first
Descending(S) ==
  IF S = {} THEN <<>>
  ELSE LET m == CHOOSE x \in S : \A y \in S : y <= x
       IN <<m>> \o Descending(S \ {m})

\* containers.list(all=True, filters={'label': 'ctfd.managed=true'}): the
\* container objects, each with the labels it had when listed
ManagedListing ==
  LET ids == Descending({ c \in DOMAIN containers :
                            DictGet(containers[c].labels, "ctfd.managed") = {"true"} })
  IN [ k \in 1 .. Len(ids) |-> [ id |-> ids[k], labels |-> containers[ids[k]].labels ] ]

list_managed_containers(t) ==
  /\ InvokeOther(t)
  /\ LET f == Entered("list_managed_containers", EmptyDict)
     IN SetFrame(t, IF ~is_connected THEN Returned(f, <<>>) ELSE At(f, "list"))

list_managed_containers_list(t) ==
  /\ Step(t, "list_managed_containers", "list")
  /\ UNCHANGED handles
  /\ RtNone
  /\ LET nat == {"ok"}
     IN \E out \in Answers(nat, {"error"}) :
          LET f == Called(fr[t], "containers.list", nat, out)
          IN /\ Charge(nat, out)
             /\ SetFrame(t, Returned(f, IF out = "ok" THEN ManagedListing
                                        ELSE <<>>))

\* a sweep that takes every container with an instance identifier
OrphanedWhateverTheList(c, instance_uuids) ==
  DictGet(c.labels, "ctfd.instance_uuid") # {}

\* instance_uuid and instance_uuid not in instance_uuids
Orphaned(c, instance_uuids) ==
  LET instance_uuid == DictGet(c.labels, "ctfd.instance_uuid")
  IN instance_uuid # {} /\ instance_uuid \cap instance_uuids = {}

\* a sweep that ends at the first container it finds gone when it stops it
SweepEndsOnNotFound(f, i) ==
  LET js == { j \in i .. Len(f.listed) :
                Orphaned(f.listed[j], f.args.instance_uuids) }
      last == f.calls[Len(f.calls)]
  IN IF js = {} \/ (last.call = "container.stop" /\ last.out = "notfound")
     THEN Returned(f, "None")
     ELSE [ f EXCEPT !.pc = "stop", !.i = CHOOSE j \in js : \A k \in js : j <= k ]

\* the for loop of cleanup_expired_containers, from index i on: the next
\* container to clean up, or the end of the method
Sweep(f, i) ==
  LET js == { j \in i .. Len(f.listed) :
                Orphaned(f.listed[j], f.args.instance_uuids) }
  IN IF js = {} THEN Returned(f, "None")
     ELSE [ f EXCEPT !.pc = "stop", !.i = CHOOSE j \in js : \A k \in js : j <= k ]

cleanup_expired_containers(t) ==
  \E uuids \in {{}, {"u1"}} :
    /\ InvokeOther(t)
    /\ LET f == Entered("cleanup_expired_containers", [ instance_uuids |-> uuids ])
       IN SetFrame(t, IF ~is_connected THEN Returned(f, "None") ELSE At(f, "list"))

\* containers = self.list_managed_containers(), which probes the session
\* again: a failed probe gives the empty list, as a failed listing does
cleanup_expired_containers_list(t) ==
  /\ Step(t, "cleanup_expired_containers", "list")
  /\ UNCHANGED handles
  /\ RtNone
  /\ LET nat == {"ok"}
     IN \E out \in Answers(nat, {"error"}) :
          LET f == Called(Called(fr[t], "ping", nat, "ok"),
                          "containers.list", nat, out)
              listed == IF out = "ok" THEN ManagedListing ELSE <<>>
          IN /\ Charge(nat, out)
             /\ SetFrame(t, Sweep([ f EXCEPT !.listed = listed ], 1))

cleanup_expired_containers_stop(t) ==
  /\ Step(t, "cleanup_expired_containers", "stop")
  /\ UNCHANGED handles
  /\ LET cid == fr[t].listed[fr[t].i].id
         nat == Stop(cid)
     IN \E out \in Answers(nat, {"error"}) :
          LET f == Called(fr[t], "container.stop", nat, out)
          IN /\ Charge(nat, out)
             /\ IF out \in {"ok", "ok_gone"}
                THEN RtStop(cid, out = "ok_gone") /\ SetFrame(t, At(f, "remove"))
                ELSE RtNone /\ SetFrame(t, Sweep(f, f.i + 1))

cleanup_expired_containers_remove(t) ==
  /\ Step(t, "cleanup_expired_containers", "remove")
  /\ UNCHANGED handles
  /\ LET cid == fr[t].listed[fr[t].i].id
         nat == Remove(cid)
     IN \E out \in Answers(nat, {"error"}) :
          LET f == Called(fr[t], "container.remove", nat, out)
          IN /\ Charge(nat, out)
             /\ (IF out = "ok" THEN RtRemove(cid) ELSE RtNone)
             /\ SetFrame(t, Sweep(f, f.i + 1))

-----------------------------------------------------------------------------
(* create_network and remove_network *)

create_network(t) ==
  \E name \in NetNames, internal \in BOOLEAN :
    /\ InvokeCreate(t)
    /\ LET f == Entered("create_network", [ name |-> name, internal |-> internal ])
       IN SetFrame(t, IF ~is_connected THEN Returned(f, FALSE) ELSE At(f, "get"))

\* a create_network that goes on to create whether or not the name exists
create_network_get_unchecked(t) ==
  /\ Step(t, "create_network", "get")
  /\ UNCHANGED handles
  /\ RtNone
  /\ LET nat == {IF NetworksNamed(fr[t].args.name) # {} THEN "ok" ELSE "notfound"}
     IN \E out \in Answers(nat, {"error"}) :
          LET f == Called(fr[t], "networks.get", nat, out)
          IN /\ Charge(nat, out)
             /\ SetFrame(t, IF out \in {"ok", "notfound"} THEN At(f, "create")
                            ELSE Returned(f, FALSE))

create_network_get(t) ==
  /\ Step(t, "create_network", "get")
  /\ UNCHANGED handles
  /\ RtNone
  /\ LET nat == {IF NetworksNamed(fr[t].args.name) # {} THEN "ok" ELSE "notfound"}
     IN \E out \in Answers(nat, {"error"}) :
          LET f == Called(fr[t], "networks.get", nat, out)
          IN /\ Charge(nat, out)
             /\ SetFrame(t, CASE out = "ok" -> Returned(f, TRUE)
                              [] out = "notfound" -> At(f, "create")
                              [] OTHER -> Returned(f, FALSE))

\* how networks.create answers for a name
NetCreate(name) == IF NetworksNamed(name) # {} THEN {"api_error"} ELSE {"ok"}

create_network_create(t) ==
  /\ Step(t, "create_network", "create")
  /\ UNCHANGED handles
  /\ LET a == fr[t].args
         nat == NetCreate(a.name)
     IN \E out \in Answers(nat, {"error"}) :
          LET f == Called(fr[t], "networks.create", nat, out)
          IN /\ Charge(nat, out)
             /\ IF out = "ok"
                THEN /\ RtNetCreate(Network(a.name, "ctfd.managed" :> "true",
                                            a.internal))
                     /\ SetFrame(t, Returned(f, TRUE))
                ELSE RtNone /\ SetFrame(t, Returned(f, FALSE))

remove_network(t) ==
  \E name \in NetNames :
    /\ InvokeOther(t)
    /\ LET f == Entered("remove_network", [ name |-> name ])
       IN SetFrame(t, IF ~is_connected THEN Returned(f, FALSE) ELSE At(f, "get"))

\* a handler that takes a network in use for a success
RemoveNetworkTolerant(f, out) ==
  IF out \in {"notfound", "in_use"} THEN Returned(f, TRUE)
  ELSE Returned(f, FALSE)

\* except docker.errors.NotFound: return True; except Exception: return False
RemoveNetworkExcept(f, out) ==
  IF out = "notfound" THEN Returned(f, TRUE) ELSE Returned(f, FALSE)

remove_network_get(t) ==
  /\ Step(t, "remove_network", "get")
  /\ UNCHANGED handles
  /\ RtNone
  /\ LET found == NetworksNamed(fr[t].args.name)
         nat == {IF found # {} THEN "ok" ELSE "notfound"}
     IN \E out \in Answers(nat, {"error"}) :
          LET f == Called(fr[t], "networks.get", nat, out)
          IN /\ Charge(nat, out)
             /\ SetFrame(t, IF out = "ok"
                            THEN [ f EXCEPT !.pc = "remove", !.network = found ]
                            ELSE RemoveNetworkExcept(f, out))

remove_network_remove(t) ==
  /\ Step(t, "remove_network", "remove")
  /\ UNCHANGED handles
  /\ \E n \in fr[t].network :
       LET nat == NetRemove(n)
       IN \E out \in Answers(nat, {"error"}) :
            LET f == Called(fr[t], "network.remove", nat, out)
            IN /\ Charge(nat, out)
               /\ IF out = "ok"
                  THEN RtNetRemove(n) /\ SetFrame(t, Returned(f, TRUE))
                  ELSE RtNone /\ SetFrame(t, RemoveNetworkExcept(f, out))

-----------------------------------------------------------------------------
(* create_container_group *)

\* containers_config: the k-th entry is named "k" and may define 'expose'
Configs ==
  UNION { [ 1 .. n -> BOOLEAN ] : n \in 1 .. MaxGroup }

ConfigEntry(cfg, k) == [ name |-> ToString(k), expose |-> cfg[k] ]

\* network_name, name_prefix and host_port of the groups a caller asks for
GroupNames ==
  { << "net-a", "grp-a", 30010 >>,
    << "net-b", "grp-b", 30011 >>,
    << "net-b", "grp-a", 30010 >> }

\* the labels a caller passes for a group
GroupLabels ==
  { EmptyDict, ("ctfd.instance_uuid" :> "u2") @@ ("ctfd.managed" :> "false") }

CreateGroupArgs ==
  { [ containers_config |-> cfg, network_name |-> g[1], name_prefix |-> g[2],
      host_port |-> g[3], labels |-> lb ] :
      cfg \in Configs, g \in GroupNames, lb \in GroupLabels }

\* labels of the private network: {'ctfd.managed': 'true',
\* 'ctfd.compose_group': name_prefix, **(labels or {})}
GroupNetworkLabels(labels, name_prefix) ==
  DictUpdate(("ctfd.managed" :> "true") @@ ("ctfd.compose_group" :> name_prefix),
             labels)

\* c_labels / entry_labels: dict(labels or {}) with the role and the name
GroupContainerLabels(labels, role, name) ==
  DictUpdate(labels, ("ctfd.compose_role" :> role) @@ ("ctfd.compose_name" :> name))

\* the container the group asks the runtime to run for one entry
GroupContainerRequest(a, role, c_def) ==
  Container(<<a.name_prefix, c_def.name>>,
            GroupContainerLabels(a.labels, role, c_def.name),
            "network", {}, FALSE, TRUE, "create_container_group")

\* for i, c in enumerate(containers_config): if c.get('expose'): break
EntryIdx(cfg) ==
  LET exposed == { k \in DOMAIN cfg : cfg[k] }
  IN IF exposed = {} THEN {}
     ELSE { CHOOSE k \in exposed : \A j \in exposed : k <= j }

\* a compensating call whose error replaces the one being handled
SwallowRebinds(f, call, out) ==
  IF out \in {"ok", "ok_gone", "notfound"} THEN f
  ELSE [ f EXCEPT !.err = Err(call, out) ]

\* an except clause that passes: the error of a compensating call is dropped
Swallow(f, call, out) == f

\* a compensation that leaves the network behind
RollbackKeepsNetwork(f) == Raised(f, f.err)

\* the except block, after each compensation that is due
RollbackAfterStop(f) ==
  IF f.network # {} THEN At(f, "rb_net_remove") ELSE Raised(f, f.err)

RollbackStop(f, i) ==
  IF i <= Len(f.created_containers)
  THEN [ f EXCEPT !.pc = "rb_stop", !.i = i ]
  ELSE RollbackAfterStop(f)

\* a compensation that disconnects the relay whenever there is a network
RollbackDisconnectsAlways(f) ==
  IF f.network # {} THEN At(f, "rb_disc_get") ELSE RollbackStop(f, 1)

RollbackAfterUnbind(f) ==
  IF f.ts_connected /\ f.network # {} THEN At(f, "rb_disc_get")
  ELSE RollbackStop(f, 1)

\* a compensation that counts the relay among the containers it created
RollbackWithRelay(f, e) ==
  LET g == [ f EXCEPT !.err = e,
                      !.created_containers =
                         IF RelayIds = {} THEN @
                         ELSE Append(@, CHOOSE r \in RelayIds : TRUE) ]
  IN IF g.ts_serve_port # {} THEN At(g, "rb_unbind_get")
     ELSE RollbackAfterUnbind(g)

\* a compensation that unbinds the port whether or not the route was bound
RollbackUnbindsAlways(f, e) ==
  At([ f EXCEPT !.err = e, !.ts_serve_port = {f.args.host_port} ],
     "rb_unbind_get")

\* except Exception as e: the compensation starts
Rollback(f, e) ==
  LET g == [ f EXCEPT !.err = e ]
  IN IF g.ts_serve_port # {} THEN At(g, "rb_unbind_get")
     ELSE RollbackAfterUnbind(g)

\* a creation that goes for the entry container at once
InternalLoopSkipped(f, i) == At(f, "run_entry")

\* the loop over the non-entry containers, from index i on
InternalLoop(f, i) ==
  LET js == { j \in i .. Len(f.args.containers_config) : {j} # f.entry_idx }
  IN IF js = {} THEN At(f, "run_entry")
     ELSE [ f EXCEPT !.pc = "run_internal",
                     !.i = CHOOSE j \in js : \A k \in js : j <= k ]

create_container_group(t) ==
  \E a \in CreateGroupArgs :
    /\ InvokeCreate(t)
    /\ LET f == Entered("create_container_group", a)
       IN SetFrame(t, IF ~is_connected THEN Raised(f, NotConnected)
                      ELSE At(f, "net_create"))

\* 1. the private network, then 2. the search for the entry container
create_container_group_network(t) ==
  /\ Step(t, "create_container_group", "net_create")
  /\ UNCHANGED handles
  /\ LET a == fr[t].args
         nat == NetCreate(a.network_name)
     IN \E out \in Answers(nat, {"error"}) :
          LET f == Called(fr[t], "networks.create", nat, out)
          IN /\ Charge(nat, out)
             /\ IF out = "ok"
                THEN LET g == [ f EXCEPT !.network = {nextId},
                                         !.entry_idx = EntryIdx(a.containers_config) ]
                     IN /\ RtNetCreate(Network(a.network_name,
                               GroupNetworkLabels(a.labels, a.name_prefix), FALSE))
                        /\ SetFrame(t,
                             IF g.entry_idx = {}
                             THEN Rollback(g, Err("entry_idx",
                                                  "No container has 'expose' defined"))
                             ELSE InternalLoop(g, 1))
                ELSE /\ RtNone
                     /\ SetFrame(t, Rollback(f, Err("networks.create", out)))

\* 3. a non-entry container
create_container_group_internal(t) ==
  /\ Step(t, "create_container_group", "run_internal")
  /\ UNCHANGED handles
  /\ LET a == fr[t].args
         c == GroupContainerRequest(a, "internal",
                                    ConfigEntry(a.containers_config, fr[t].i))
         nat == Run(c, {a.network_name})
     IN \E out \in Answers(nat, RunFailures) :
          LET f == Called(fr[t], "containers.run", nat, out)
          IN /\ Charge(nat, out)
             /\ IF out = "ok"
                THEN /\ RtRun(Attached(c, {a.network_name}))
                     /\ SetFrame(t, InternalLoop(
                          [ f EXCEPT !.created_containers = Append(@, nextId) ],
                          f.i + 1))
                ELSE /\ RtNone
                     /\ SetFrame(t, Rollback(f, Err("containers.run", out)))

\* 4. the entry container
create_container_group_entry(t) ==
  /\ Step(t, "create_container_group", "run_entry")
  /\ UNCHANGED handles
  /\ LET a == fr[t].args
     IN \E k \in fr[t].entry_idx :
          LET c == GroupContainerRequest(a, "entry",
                                         ConfigEntry(a.containers_config, k))
              nat == Run(c, {a.network_name})
          IN \E out \in Answers(nat, RunFailures) :
               LET f == Called(fr[t], "containers.run", nat, out)
               IN /\ Charge(nat, out)
                  /\ IF out = "ok"
                     THEN /\ RtRun(Attached(c, {a.network_name}))
                          /\ SetFrame(t, At(
                               [ f EXCEPT !.created_containers = Append(@, nextId) ],
                               "get_relay"))
                     ELSE /\ RtNone
                          /\ SetFrame(t, Rollback(f, Err("containers.run", out)))

\* 5. ts_container = self.client.containers.get(tailnet_container)
create_container_group_relay(t) ==
  /\ Step(t, "create_container_group", "get_relay")
  /\ UNCHANGED handles
  /\ RtNone
  /\ LET nat == {GetRelay}
     IN \E out \in Answers(nat, {"error"}) :
          LET f == Called(fr[t], "containers.get(relay)", nat, out)
          IN /\ Charge(nat, out)
             /\ SetFrame(t, IF out = "ok" THEN At(f, "connect")
                            ELSE Rollback(f, Err("containers.get(relay)", out)))

\* how network.connect / network.disconnect of the relay answer
NetConnect(n) ==
  IF n \in DOMAIN networks /\ RelayIds # {} /\ n \notin relayNets
  THEN {"ok"} ELSE {"api_error"}

NetDisconnect(n) ==
  IF n \in DOMAIN networks /\ RelayIds # {} /\ n \in relayNets
  THEN {"ok"} ELSE {"api_error"}

\* 5. network.connect(ts_container)
create_container_group_connect(t) ==
  /\ Step(t, "create_container_group", "connect")
  /\ UNCHANGED handles
  /\ \E n \in fr[t].network :
       LET nat == NetConnect(n)
       IN \E out \in Answers(nat, {"error"}) :
            LET f == Called(fr[t], "network.connect", nat, out)
            IN /\ Charge(nat, out)
               /\ IF out = "ok"
                  THEN /\ RtConnect(n)
                       /\ SetFrame(t, At([ f EXCEPT !.ts_connected = TRUE ],
                                         "exec_serve"))
                  ELSE /\ RtNone
                       /\ SetFrame(t, Rollback(f, Err("network.connect", out)))

\* how exec_run inside the relay answers
Exec == IF RelayIds # {} THEN {"ok"} ELSE {"notfound"}

\* the handle create_container_group returns
Handle(f) ==
  [ container_ids |-> f.created_containers,
    entry_container_id |-> f.created_containers[Len(f.created_containers)],
    network_id |-> f.network,
    port |-> f.args.host_port ]

\* 6. tailscale serve inside the relay, the log lines and the return.
\* exit_code != 0 raises; an output that is no UTF-8 makes
\* output.decode() raise once the route is bound
create_container_group_serve(t) ==
  /\ Step(t, "create_container_group", "exec_serve")
  /\ LET a == fr[t].args
         nat == Exec
     IN \E out \in Answers(nat, {"error", "exit_nonzero", "undecodable"}) :
          LET f == Called(fr[t], "exec_run(serve)", nat, out)
              entry_name == <<a.name_prefix,
                              ToString(CHOOSE k \in f.entry_idx : TRUE)>>
              g == [ f EXCEPT !.ts_serve_port = {a.host_port} ]
          IN /\ Charge(nat, out)
             /\ CASE out = "ok" ->
                       /\ RtServe(a.host_port, entry_name)
                       /\ SetFrame(t, Returned(g, Handle(g)))
                       /\ handles' = handles \cup {Handle(g)}
                  [] out = "undecodable" ->
                       /\ RtServe(a.host_port, entry_name)
                       /\ SetFrame(t, Rollback(g, Err("output.decode", out)))
                       /\ UNCHANGED handles
                  [] OTHER ->
                       /\ RtNone
                       /\ SetFrame(t, Rollback(f, Err("exec_run(serve)", out)))
                       /\ UNCHANGED handles

\* except: ts_container = self.client.containers.get(tailnet_container)
create_container_group_rb_unbind_get(t) ==
  /\ Step(t, "create_container_group", "rb_unbind_get")
  /\ UNCHANGED handles
  /\ RtNone
  /\ LET nat == {GetRelay}
     IN \E out \in Answers(nat, {"error"}) :
          LET f == Called(fr[t], "containers.get(relay)", nat, out)
          IN /\ Charge(nat, out)
             /\ SetFrame(t, IF out = "ok" THEN At(f, "rb_unbind_exec")
                            ELSE RollbackAfterUnbind(
                                   Swallow(f, "containers.get(relay)", out)))

\* except: ts_container.exec_run('tailscale serve --tcp PORT off')
create_container_group_rb_unbind(t) ==
  /\ Step(t, "create_container_group", "rb_unbind_exec")
  /\ UNCHANGED handles
  /\ LET nat == Exec
     IN \E out \in Answers(nat, {"error"}) :
          LET f == Called(fr[t], "exec_run(off)", nat, out)
          IN /\ Charge(nat, out)
             /\ (IF out = "ok"
                 THEN \E p \in f.ts_serve_port : RtServeOff(p)
                 ELSE RtNone)
             /\ SetFrame(t, RollbackAfterUnbind(Swallow(f, "exec_run(off)", out)))

create_container_group_rb_disc_get(t) ==
  /\ Step(t, "create_container_group", "rb_disc_get")
  /\ UNCHANGED handles
  /\ RtNone
  /\ LET nat == {GetRelay}
     IN \E out \in Answers(nat, {"error"}) :
          LET f == Called(fr[t], "containers.get(relay)", nat, out)
          IN /\ Charge(nat, out)
             /\ SetFrame(t, IF out = "ok" THEN At(f, "rb_disc")
                            ELSE RollbackStop(
                                   Swallow(f, "containers.get(relay)", out), 1))

create_container_group_rb_disc(t) ==
  /\ Step(t, "create_container_group", "rb_disc")
  /\ UNCHANGED handles
  /\ \E n \in fr[t].network :
       LET nat == NetDisconnect(n)
       IN \E out \in Answers(nat, {"error"}) :
            LET f == Called(fr[t], "network.disconnect", nat, out)
            IN /\ Charge(nat, out)
               /\ (IF out = "ok" THEN RtDisconnect(n) ELSE RtNone)
               /\ SetFrame(t, RollbackStop(Swallow(f, "network.disconnect", out), 1))

create_container_group_rb_stop(t) ==
  /\ Step(t, "create_container_group", "rb_stop")
  /\ UNCHANGED handles
  /\ LET c == fr[t].created_containers[fr[t].i]
         nat == Stop(c)
     IN \E out \in Answers(nat, {"error"}) :
          LET f == Called(fr[t], "container.stop", nat, out)
          IN /\ Charge(nat, out)
             /\ IF out \in {"ok", "ok_gone"}
                THEN RtStop(c, out = "ok_gone") /\ SetFrame(t, At(f, "rb_remove"))
                ELSE /\ RtNone
                     /\ SetFrame(t, RollbackStop(Swallow(f, "container.stop", out),
                                                 f.i + 1))

create_container_group_rb_remove(t) ==
  /\ Step(t, "create_container_group", "rb_remove")
  /\ UNCHANGED handles
  /\ LET c == fr[t].created_containers[fr[t].i]
         nat == Remove(c)
     IN \E out \in Answers(nat, {"error"}) :
          LET f == Called(fr[t], "container.remove", nat, out)
          IN /\ Charge(nat, out)
             /\ (IF out = "ok" THEN RtRemove(c) ELSE RtNone)
             /\ SetFrame(t, RollbackStop(Swallow(f, "container.remove", out),
                                         f.i + 1))

\* if network: network.remove(), and then the bare raise
create_container_group_rb_net(t) ==
  /\ Step(t, "create_container_group", "rb_net_remove")
  /\ UNCHANGED handles
  /\ \E n \in fr[t].network :
       LET nat == NetRemove(n)
       IN \E out \in Answers(nat, {"error"}) :
            LET f == Called(fr[t], "network.remove", nat, out)
                g == Swallow(f, "network.remove", out)
            IN /\ Charge(nat, out)
               /\ (IF out = "ok" THEN RtNetRemove(n) ELSE RtNone)
               /\ SetFrame(t, Raised(g, g.err))

-----------------------------------------------------------------------------
(* stop_container_group *)

\* the arguments a caller passes: a handle it was returned, ids of nothing
\* that exists, or nothing at all
StopGroupArgs ==
  { [ container_ids |-> h.container_ids, network_id |-> h.network_id,
      host_port |-> {h.port} ] : h \in handles }
  \cup { [ container_ids |-> <<nextId>>, network_id |-> {nextId},
           host_port |-> {p} ] : p \in Ports }
  \cup { [ container_ids |-> <<>>, network_id |-> {}, host_port |-> {} ] }

\* a teardown that leaves the network alone
StopGroupSkipsNetwork(f) == Returned(f, f.success)

\* 3. if network_id: ... ; return success
StopGroupNetwork(f) ==
  IF f.args.network_id # {} THEN At(f, "net_get") ELSE Returned(f, f.success)

\* a loop that a failure ends
StopGroupLoopBreaks(f, i) ==
  IF i <= Len(f.args.container_ids) /\ f.success
  THEN [ f EXCEPT !.pc = "get", !.i = i ]
  ELSE StopGroupNetwork(f)

\* 2. for cid in (container_ids or []), from index i on
StopGroupLoop(f, i) ==
  IF i <= Len(f.args.container_ids)
  THEN [ f EXCEPT !.pc = "get", !.i = i ]
  ELSE StopGroupNetwork(f)

\* a loop body that records no failure
StopGroupExceptLenient(f, out) == f

\* a loop body that records NotFound as a failure too
StopGroupExceptStrict(f, out) == [ f EXCEPT !.success = FALSE ]

\* the except clauses of the loop body: NotFound is logged, any other
\* error is logged and recorded
StopGroupExcept(f, out) ==
  IF out = "notfound" THEN f ELSE [ f EXCEPT !.success = FALSE ]

stop_container_group(t) ==
  \E a \in StopGroupArgs :
    /\ InvokeOther(t)
    /\ LET f == Entered("stop_container_group", a)
       IN SetFrame(t, IF ~is_connected THEN Returned(f, FALSE)
                      ELSE IF a.host_port # {} THEN At(f, "unbind_get")
                      ELSE StopGroupLoop(f, 1))

\* 1. ts_container = self.client.containers.get(tailnet_container)
stop_container_group_unbind_get(t) ==
  /\ Step(t, "stop_container_group", "unbind_get")
  /\ UNCHANGED handles
  /\ RtNone
  /\ LET nat == {GetRelay}
     IN \E out \in Answers(nat, {"error"}) :
          LET f == Called(fr[t], "containers.get(relay)", nat, out)
          IN /\ Charge(nat, out)
             /\ SetFrame(t, IF out = "ok" THEN At(f, "unbind_exec")
                            ELSE StopGroupLoop(f, 1))

\* 1. ts_container.exec_run('tailscale serve --tcp PORT off')
stop_container_group_unbind(t) ==
  /\ Step(t, "stop_container_group", "unbind_exec")
  /\ UNCHANGED handles
  /\ LET nat == Exec
     IN \E out \in Answers(nat, {"error"}) :
          LET f == Called(fr[t], "exec_run(off)", nat, out)
          IN /\ Charge(nat, out)
             /\ (IF out = "ok"
                 THEN \E p \in f.args.host_port : RtServeOff(p)
                 ELSE RtNone)
             /\ SetFrame(t, StopGroupLoop(f, 1))

stop_container_group_get(t) ==
  /\ Step(t, "stop_container_group", "get")
  /\ UNCHANGED handles
  /\ RtNone
  /\ LET cid == fr[t].args.container_ids[fr[t].i]
         nat == {GetContainer(cid)}
     IN \E out \in Answers(nat, {"error"}) :
          LET f == Called(fr[t], "containers.get", nat, out)
          IN /\ Charge(nat, out)
             /\ SetFrame(t, IF out = "ok" THEN At(f, "stop")
                            ELSE StopGroupLoop(StopGroupExcept(f, out), f.i + 1))

stop_container_group_stop(t) ==
  /\ Step(t, "stop_container_group", "stop")
  /\ UNCHANGED handles
  /\ LET cid == fr[t].args.container_ids[fr[t].i]
         nat == Stop(cid)
     IN \E out \in Answers(nat, {"error"}) :
          LET f == Called(fr[t], "container.stop", nat, out)
          IN /\ Charge(nat, out)
             /\ IF out \in {"ok", "ok_gone"}
                THEN RtStop(cid, out = "ok_gone") /\ SetFrame(t, At(f, "remove"))
                ELSE /\ RtNone
                     /\ SetFrame(t, StopGroupLoop(StopGroupExcept(f, out), f.i + 1))

stop_container_group_remove(t) ==
  /\ Step(t, "stop_container_group", "remove")
  /\ UNCHANGED handles
  /\ LET cid == fr[t].args.container_ids[fr[t].i]
         nat == Remove(cid)
     IN \E out \in Answers(nat, {"error"}) :
          LET f == Called(fr[t], "container.remove", nat, out)
          IN /\ Charge(nat, out)
             /\ (IF out = "ok" THEN RtRemove(cid) ELSE RtNone)
             /\ SetFrame(t, StopGroupLoop(
                  IF out = "ok" THEN f ELSE StopGroupExcept(f, out), f.i + 1))

\* 3. network = self.client.networks.get(network_id)
stop_container_group_net_get(t) ==
  /\ Step(t, "stop_container_group", "net_get")
  /\ UNCHANGED handles
  /\ RtNone
  /\ \E n \in fr[t].args.network_id :
       LET nat == {GetNetwork(n)}
       IN \E out \in Answers(nat, {"error"}) :
            LET f == Called(fr[t], "networks.get", nat, out)
            IN /\ Charge(nat, out)
               /\ SetFrame(t, IF out = "ok" THEN At(f, "relay_get")
                              ELSE LET g == StopGroupExcept(f, out)
                                   IN Returned(g, g.success))

\* 3. the inner try: ts_container = self.client.containers.get(...)
stop_container_group_relay_get(t) ==
  /\ Step(t, "stop_container_group", "relay_get")
  /\ UNCHANGED handles
  /\ RtNone
  /\ LET nat == {GetRelay}
     IN \E out \in Answers(nat, {"error"}) :
          LET f == Called(fr[t], "containers.get(relay)", nat, out)
          IN /\ Charge(nat, out)
             /\ SetFrame(t, IF out = "ok" THEN At(f, "disconnect")
                            ELSE At(f, "net_remove"))

\* 3. the inner try: network.disconnect(ts_container)
stop_container_group_disconnect(t) ==
  /\ Step(t, "stop_container_group", "disconnect")
  /\ UNCHANGED handles
  /\ \E n \in fr[t].args.network_id :
       LET nat == NetDisconnect(n)
       IN \E out \in Answers(nat, {"error"}) :
            LET f == Called(fr[t], "network.disconnect", nat, out)
            IN /\ Charge(nat, out)
               /\ (IF out = "ok" THEN RtDisconnect(n) ELSE RtNone)
               /\ SetFrame(t, At(f, "net_remove"))

\* 3. network.remove()
stop_container_group_net_remove(t) ==
  /\ Step(t, "stop_container_group", "net_remove")
  /\ UNCHANGED handles
  /\ \E n \in fr[t].args.network_id :
       LET nat == NetRemove(n)
       IN \E out \in Answers(nat, {"error"}) :
            LET f == Called(fr[t], "network.remove", nat, out)
                g == IF out = "ok" THEN f ELSE StopGroupExcept(f, out)
            IN /\ Charge(nat, out)
               /\ (IF out = "ok" THEN RtNetRemove(n) ELSE RtNone)
               /\ SetFrame(t, Returned(g, g.success))

-----------------------------------------------------------------------------

\* a container an earlier run of the service created and left behind
EarlierContainer(uuid) ==
  CreateContainerRequest(
    [ host_port |-> {}, ports |-> {}, network |-> {}, use_traefik |-> TRUE,
      network_mode |-> {}, name |-> NoName,
      labels |-> "ctfd.instance_uuid" :> uuid ]).c

\* the runtime a service is constructed against: the relay, a container of
\* another owner and two containers of an earlier run
Init ==
  /\ daemonUp \in BOOLEAN
  /\ constructed = FALSE
  /\ client = {}
  /\ containers = (1 :> RelayContainer) @@ (2 :> ForeignContainer)
                  @@ (3 :> EarlierContainer("u1")) @@ (4 :> EarlierContainer("u2"))
  /\ networks = <<>>
  /\ relayNets = {}
  /\ routes = <<>>
  /\ nextId = 5
  /\ nops = 0
  /\ ncreates = 0
  /\ nfaults = 0
  /\ handles = {}
  /\ active = {1}
  /\ fr = [ t \in Threads |-> IdleFrame ]


Next ==
  \/ Connect
  \/ DaemonFlip
  \/ AutoRemove
  \/ \E t \in Threads : create_container(t)
  \/ \E t \in Threads : create_container_run(t)
  \/ \E t \in Threads : stop_container(t)
  \/ \E t \in Threads : stop_container_get(t)
  \/ \E t \in Threads : stop_container_stop(t)
  \/ \E t \in Threads : stop_container_remove(t)
  \/ \E t \in Threads : list_managed_containers(t)
  \/ \E t \in Threads : list_managed_containers_list(t)
  \/ \E t \in Threads : cleanup_expired_containers(t)
  \/ \E t \in Threads : cleanup_expired_containers_list(t)
  \/ \E t \in Threads : cleanup_expired_containers_stop(t)
  \/ \E t \in Threads : cleanup_expired_containers_remove(t)
  \/ \E t \in Threads : create_network(t)
  \/ \E t \in Threads : create_network_get(t)
  \/ \E t \in Threads : create_network_create(t)
  \/ \E t \in Threads : remove_network(t)
  \/ \E t \in Threads : remove_network_get(t)
  \/ \E t \in Threads : remove_network_remove(t)
  \/ \E t \in Threads : create_container_group(t)
  \/ \E t \in Threads : create_container_group_network(t)
  \/ \E t \in Threads : create_container_group_internal(t)
  \/ \E t \in Threads : create_container_group_entry(t)
  \/ \E t \in Threads : create_container_group_relay(t)
  \/ \E t \in Threads : create_container_group_connect(t)
  \/ \E t \in Threads : create_container_group_serve(t)
  \/ \E t \in Threads : create_container_group_rb_unbind_get(t)
  \/ \E t \in Threads : create_container_group_rb_unbind(t)
  \/ \E t \in Threads : create_container_group_rb_disc_get(t)
  \/ \E t \in Threads : create_container_group_rb_disc(t)
  \/ \E t \in Threads : create_container_group_rb_stop(t)
  \/ \E t \in Threads : create_container_group_rb_remove(t)
  \/ \E t \in Threads : create_container_group_rb_net(t)
  \/ \E t \in Threads : stop_container_group(t)
  \/ \E t \in Threads : stop_container_group_unbind_get(t)
  \/ \E t \in Threads : stop_container_group_unbind(t)
  \/ \E t \in Threads : stop_container_group_get(t)
  \/ \E t \in Threads : stop_container_group_stop(t)
  \/ \E t \in Threads : stop_container_group_remove(t)
  \/ \E t \in Threads : stop_container_group_net_get(t)
  \/ \E t \in Threads : stop_container_group_relay_get(t)
  \/ \E t \in Threads : stop_container_group_disconnect(t)
  \/ \E t \in Threads : stop_container_group_net_remove(t)

Spec == Init /\ [][Next]_vars

\* the group methods alone
NextGroup ==
  \/ Connect
  \/ DaemonFlip
  \/ AutoRemove
  \/ \E t \in Threads : create_container_group(t)
  \/ \E t \in Threads : create_container_group_network(t)
  \/ \E t \in Threads : create_container_group_internal(t)
  \/ \E t \in Threads : create_container_group_entry(t)
  \/ \E t \in Threads : create_container_group_relay(t)
  \/ \E t \in Threads : create_container_group_connect(t)
  \/ \E t \in Threads : create_container_group_serve(t)
  \/ \E t \in Threads : create_container_group_rb_unbind_get(t)
  \/ \E t \in Threads : create_container_group_rb_unbind(t)
  \/ \E t \in Threads : create_container_group_rb_disc_get(t)
  \/ \E t \in Threads : create_container_group_rb_disc(t)
  \/ \E t \in Threads : create_container_group_rb_stop(t)
  \/ \E t \in Threads : create_container_group_rb_remove(t)
  \/ \E t \in Threads : create_container_group_rb_net(t)
  \/ \E t \in Threads : stop_container_group(t)
  \/ \E t \in Threads : stop_container_group_unbind_get(t)
  \/ \E t \in Threads : stop_container_group_unbind(t)
  \/ \E t \in Threads : stop_container_group_get(t)
  \/ \E t \in Threads : stop_container_group_stop(t)
  \/ \E t \in Threads : stop_container_group_remove(t)
  \/ \E t \in Threads : stop_container_group_net_get(t)
  \/ \E t \in Threads : stop_container_group_relay_get(t)
  \/ \E t \in Threads : stop_container_group_disconnect(t)
  \/ \E t \in Threads : stop_container_group_net_remove(t)

SpecGroup == Init /\ [][NextGroup]_vars

\* the arguments of the group the concurrent callers find running: two
\* containers, labelled by the caller as managed and of instance u2
RunningGroupArgs ==
  [ containers_config |-> << FALSE, TRUE >>, network_name |-> "net-a",
    name_prefix |-> "grp-a", host_port |-> 30010,
    labels |-> ("ctfd.instance_uuid" :> "u2") @@ ("ctfd.managed" :> "true") ]

\* a service with a group up, as create_container_group leaves it, the
\* caller threads and what is spent of the runtime's failures
GroupUp(callers, spent) ==
  LET a == RunningGroupArgs
      member(role, k) ==
        [ GroupContainerRequest(a, role, ConfigEntry(a.containers_config, k))
            EXCEPT !.net = {5} ]
  IN /\ daemonUp = TRUE
     /\ constructed = FALSE
     /\ client = {}
     /\ containers = (1 :> RelayContainer) @@ (2 :> ForeignContainer)
                     @@ (3 :> EarlierContainer("u1")) @@ (4 :> EarlierContainer("u2"))
                     @@ (6 :> member("internal", 1)) @@ (7 :> member("entry", 2))
     /\ networks = 5 :> Network(a.network_name,
                                GroupNetworkLabels(a.labels, a.name_prefix), FALSE)
     /\ relayNets = {5}
     /\ routes = a.host_port :> << a.name_prefix, "2" >>
     /\ nextId = 8
     /\ nops = 0
     /\ ncreates = 0
     /\ nfaults = spent
     /\ handles = { [ container_ids |-> << 6, 7 >>, entry_container_id |-> 7,
                      network_id |-> {5}, port |-> a.host_port ] }
     /\ active = callers
     /\ fr = [ t \in Threads |-> IdleFrame ]

\* the group methods called on a service that has a group up: its network
\* name, its container names and its port are taken
InitRegroup == GroupUp({1}, 0)

NextRegroup == NextGroup

SpecRegroup == InitRegroup /\ [][NextRegroup]_vars

\* two caller threads, and a runtime that fails no call on its own
InitConc == GroupUp(Threads, MaxFaults)

\* the teardown methods, called by the two threads with no lock between them
NextConc ==
  \/ Connect
  \/ AutoRemove
  \/ \E t \in Threads : stop_container(t)
  \/ \E t \in Threads : stop_container_get(t)
  \/ \E t \in Threads : stop_container_stop(t)
  \/ \E t \in Threads : stop_container_remove(t)
  \/ \E t \in Threads : cleanup_expired_containers(t)
  \/ \E t \in Threads : cleanup_expired_containers_list(t)
  \/ \E t \in Threads : cleanup_expired_containers_stop(t)
  \/ \E t \in Threads : cleanup_expired_containers_remove(t)
  \/ \E t \in Threads : stop_container_group(t)
  \/ \E t \in Threads : stop_container_group_unbind_get(t)
  \/ \E t \in Threads : stop_container_group_unbind(t)
  \/ \E t \in Threads : stop_container_group_get(t)
  \/ \E t \in Threads : stop_container_group_stop(t)
  \/ \E t \in Threads : stop_container_group_remove(t)
  \/ \E t \in Threads : stop_container_group_net_get(t)
  \/ \E t \in Threads : stop_container_group_relay_get(t)
  \/ \E t \in Threads : stop_container_group_disconnect(t)
  \/ \E t \in Threads : stop_container_group_net_remove(t)

SpecConc == InitConc /\ [][NextConc]_vars

\* one caller, and a runtime that may fail calls
InitTeardown == GroupUp({1}, 0)

\* stop_container_group, called again and again
NextTeardown ==
  \/ Connect
  \/ DaemonFlip
  \/ AutoRemove
  \/ \E t \in Threads : stop_container_group(t)
  \/ \E t \in Threads : stop_container_group_unbind_get(t)
  \/ \E t \in Threads : stop_container_group_unbind(t)
  \/ \E t \in Threads : stop_container_group_get(t)
  \/ \E t \in Threads : stop_container_group_stop(t)
  \/ \E t \in Threads : stop_container_group_remove(t)
  \/ \E t \in Threads : stop_container_group_net_get(t)
  \/ \E t \in Threads : stop_container_group_relay_get(t)
  \/ \E t \in Threads : stop_container_group_disconnect(t)
  \/ \E t \in Threads : stop_container_group_net_remove(t)

SpecTeardown == InitTeardown /\ [][NextTeardown]_vars

\* the arguments of a second group, of other names and another port
OtherGroupArgs ==
  [ RunningGroupArgs EXCEPT !.network_name = "net-b", !.name_prefix = "grp-b",
                            !.host_port = 30011 ]

\* a service with two groups up, as two create_container_group calls leave
\* them: the networks 5 and 8, the containers 6, 7 and 9, 10, a route each
InitTwoGroups ==
  LET a == RunningGroupArgs
      b == OtherGroupArgs
      member(g, n, role, k) ==
        [ GroupContainerRequest(g, role, ConfigEntry(g.containers_config, k))
            EXCEPT !.net = {n} ]
  IN /\ daemonUp = TRUE
     /\ constructed = FALSE
     /\ client = {}
     /\ containers = (1 :> RelayContainer) @@ (2 :> ForeignContainer)
                     @@ (3 :> EarlierContainer("u1")) @@ (4 :> EarlierContainer("u2"))
                     @@ (6 :> member(a, 5, "internal", 1))
                     @@ (7 :> member(a, 5, "entry", 2))
                     @@ (9 :> member(b, 8, "internal", 1))
                     @@ (10 :> member(b, 8, "entry", 2))
     /\ networks = (5 :> Network(a.network_name,
                                 GroupNetworkLabels(a.labels, a.name_prefix), FALSE))
                   @@ (8 :> Network(b.network_name,
                                    GroupNetworkLabels(b.labels, b.name_prefix), FALSE))
     /\ relayNets = {5, 8}
     /\ routes = (a.host_port :> << a.name_prefix, "2" >>)
                 @@ (b.host_port :> << b.name_prefix, "2" >>)
     /\ nextId = 11
     /\ nops = 0
     /\ ncreates = 0
     /\ nfaults = 0
     /\ handles = { [ container_ids |-> << 6, 7 >>, entry_container_id |-> 7,
                      network_id |-> {5}, port |-> a.host_port ],
                    [ container_ids |-> << 9, 10 >>, entry_container_id |-> 10,
                      network_id |-> {8}, port |-> b.host_port ] }
     /\ active = {1}
     /\ fr = [ t \in Threads |-> IdleFrame ]

NextTwoGroups == NextTeardown

SpecTwoGroups == InitTwoGroups /\ [][NextTwoGroups]_vars

\* a service that finds the network net-a, which an earlier create_network
\* made, internal or not
InitNetwork ==
  /\ daemonUp \in BOOLEAN
  /\ constructed = FALSE
  /\ client = {}
  /\ containers = (1 :> RelayContainer) @@ (2 :> ForeignContainer)
  /\ \E internal \in BOOLEAN :
       networks = 3 :> Network("net-a", "ctfd.managed" :> "true", internal)
  /\ relayNets = {}
  /\ routes = <<>>
  /\ nextId = 4
  /\ nops = 0
  /\ ncreates = 0
  /\ nfaults = 0
  /\ handles = {}
  /\ active = {1}
  /\ fr = [ t \in Threads |-> IdleFrame ]

\* create_network and remove_network
NextNetwork ==
  \/ Connect
  \/ DaemonFlip
  \/ \E t \in Threads : create_network(t)
  \/ \E t \in Threads : create_network_get(t)
  \/ \E t \in Threads : create_network_create(t)
  \/ \E t \in Threads : remove_network(t)
  \/ \E t \in Threads : remove_network_get(t)
  \/ \E t \in Threads : remove_network_remove(t)

SpecNetwork == InitNetwork /\ [][NextNetwork]_vars

-----------------------------------------------------------------------------
(* Properties *)

\* a frame whose method has finished
Done(f, op) == f.op = op /\ f.pc = "done"

\* the answers that are no failure of the call
OkOuts == {"ok", "ok_gone", "notfound"}

\* the positions of create_container_group's compensation
RollbackPcs ==
  {"rb_unbind_get", "rb_unbind_exec", "rb_disc_get", "rb_disc", "rb_stop",
   "rb_remove", "rb_net_remove"}

\* the calls of the frame that failed, and those of them the runtime's state
\* does not explain
Failed(f) == { k \in DOMAIN f.calls : f.calls[k].out \notin OkOuts }
Injected(f) == { k \in DOMAIN f.calls : f.calls[k].injected }

\* the calls of the frame that changed the runtime
Mutating ==
  {"containers.run", "networks.create", "network.connect", "network.disconnect",
   "network.remove", "container.stop", "container.remove", "exec_run(serve)",
   "exec_run(off)"}
Mutations(f) == { k \in DOMAIN f.calls : f.calls[k].call \in Mutating }

Range(s) == { s[k] : k \in DOMAIN s }

\* C1: once create_container_group has raised, and no compensating call was
\* made to fail, the runtime holds nothing the invocation produced: none of
\* the containers it created, not its network, no attachment of the relay to
\* that network, no tunnel route for the port it bound; whichever step failed.
C1_RollbackLeavesNothing ==
  \A t \in Threads :
    LET f == fr[t]
    IN (/\ Done(f, "create_container_group")
        /\ f.result.kind = "raise"
        /\ \A k \in Injected(f) : f.calls[k].pc \notin RollbackPcs)
       => /\ Range(f.created_containers) \cap DOMAIN containers = {}
          /\ f.network \cap DOMAIN networks = {}
          /\ f.network \cap relayNets = {}
          /\ f.ts_serve_port \cap DOMAIN routes = {}

\* the last step failed after every resource was produced, and the
\* compensation ran through
C1_Witness ==
  \E t \in Threads :
    LET f == fr[t]
    IN /\ Done(f, "create_container_group")
       /\ f.result.kind = "raise"
       /\ f.err.at = "output.decode"
       /\ Len(f.created_containers) = 2
       /\ f.ts_connected
       /\ \A k \in Injected(f) : f.calls[k].pc \notin RollbackPcs
       /\ \E k \in DOMAIN f.calls : f.calls[k].pc = "rb_net_remove"

\* C2: a group specification with no exposed container, or with more than
\* one, makes create_container_group fail without any runtime call that
\* creates or changes something.
C2_EntryCountCheckedFirst ==
  \A t \in Threads :
    LET f == fr[t]
        cfg == f.args.containers_config
    IN (/\ Done(f, "create_container_group")
        /\ Cardinality({ k \in DOMAIN cfg : cfg[k] }) # 1)
       => /\ f.result.kind = "raise"
          /\ Mutations(f) = {}

\* the error create_container_group was handling when its compensation
\* started, read off the calls it made
CreationError(f) ==
  LET failed == { k \in Failed(f) : f.calls[k].pc \notin RollbackPcs }
  IN IF failed = {}
     THEN Err("entry_idx", "No container has 'expose' defined")
     ELSE LET k == CHOOSE j \in failed : \A i \in failed : j <= i
          IN IF f.calls[k].out = "undecodable"
             THEN Err("output.decode", "undecodable")
             ELSE Err(f.calls[k].call, f.calls[k].out)

\* C4: the exception create_container_group raises is the error of the
\* creation step that failed, also when calls of the compensation fail.
C4_OriginalErrorRaised ==
  \A t \in Threads :
    LET f == fr[t]
    IN (/\ Done(f, "create_container_group")
        /\ f.result.kind = "raise"
        /\ f.connected)
       => f.result.val = CreationError(f)

\* a creation step failed and so did a call of the compensation
C4_Witness ==
  \E t \in Threads :
    LET f == fr[t]
    IN /\ Done(f, "create_container_group")
       /\ f.result.kind = "raise"
       /\ \E k \in Failed(f) : f.calls[k].pc \notin RollbackPcs
       /\ \E k \in Failed(f) : f.calls[k].pc \in RollbackPcs

\* C3: create_container called with network_mode together with ports (or a
\* host port) or a network fails validation: it raises and never reaches
\* containers.run.
C3_SharedModeValidated ==
  \A t \in Threads :
    LET f == fr[t]
        a == f.args
    IN (/\ Done(f, "create_container")
        /\ a.network_mode # {}
        /\ (a.ports # {} \/ a.host_port # {} \/ a.network # {}))
       => /\ f.result.kind = "raise"
          /\ \A k \in DOMAIN f.calls : f.calls[k].call # "containers.run"

\* C5: stop_container, stop_container_group and remove_network never raise:
\* whatever the runtime answers, and without a session, they return a boolean.
C5_TeardownReturnsBoolean ==
  \A t \in Threads :
    LET f == fr[t]
    IN (\E op \in {"stop_container", "stop_container_group", "remove_network"} :
          Done(f, op))
       => /\ f.result.kind = "return"
          /\ f.result.val \in BOOLEAN

\* a teardown has finished after the runtime failed a stop it asked for
C5_Witness ==
  \E t \in Threads :
    LET f == fr[t]
    IN /\ Done(f, "stop_container_group")
       /\ f.result = [ kind |-> "return", val |-> FALSE ]
       /\ \E k \in Injected(f) : f.calls[k].call = "container.stop"

\* what the runtime holds, but for the stopped containers it is about to
\* remove by itself
Settled(cs) ==
  [ c \in { d \in DOMAIN cs : ~(cs[d].status = "exited" /\ cs[d].autoRemove) }
      |-> cs[c] ]

\* a finished teardown of things the runtime never held, every call of which
\* the runtime answered as its state dictates
OfNothing(f) ==
  /\ f.connected
  /\ Injected(f) = {}
  /\ \/ /\ Done(f, "stop_container")
        /\ f.args.container_id \notin DOMAIN f.pre.containers
     \/ /\ Done(f, "stop_container_group")
        /\ f.args.container_ids # <<>>
        /\ Range(f.args.container_ids) \cap DOMAIN f.pre.containers = {}
        /\ f.args.network_id # {}
        /\ f.args.network_id \cap DOMAIN f.pre.networks = {}

\* C6 as stated: stop_container on an id that names no container, and
\* stop_container_group on a handle whose ids name nothing, return True and
\* leave the runtime as it was.
C6_StopOfNothingChangesNothing ==
  \A t \in Threads :
    LET f == fr[t]
    IN OfNothing(f)
       => /\ f.result = [ kind |-> "return", val |-> TRUE ]
          /\ Settled(containers) = Settled(f.pre.containers)
          /\ networks = f.pre.networks
          /\ relayNets = f.pre.relayNets
          /\ routes = f.pre.routes

\* C6: stop_container on an id that names no container, and
\* stop_container_group on a handle whose ids name nothing, return True and
\* leave every container, network and relay attachment as it was; the one
\* thing stop_container_group may take away is the tunnel route of the
\* handle's port.
C6_StopOfNothingKeepsResources ==
  \A t \in Threads :
    LET f == fr[t]
    IN OfNothing(f)
       => /\ f.result = [ kind |-> "return", val |-> TRUE ]
          /\ Settled(containers) = Settled(f.pre.containers)
          /\ networks = f.pre.networks
          /\ relayNets = f.pre.relayNets
          /\ \A p \in DOMAIN f.pre.routes :
               \/ p \in DOMAIN routes /\ routes[p] = f.pre.routes[p]
               \/ Done(f, "stop_container_group") /\ p \in f.args.host_port
          /\ DOMAIN routes \subseteq DOMAIN f.pre.routes

\* stop_container_group was given ids of nothing and the port of a live
\* group, whose route it unbound
C6_Witness ==
  \E t \in Threads :
    LET f == fr[t]
    IN /\ OfNothing(f)
       /\ Done(f, "stop_container_group")
       /\ f.args.host_port \cap DOMAIN f.pre.routes # {}
       /\ f.args.host_port \cap DOMAIN routes = {}

\* what the sweep is to take: a managed container whose instance identifier
\* is set and not among the valid ones
Expired(o, valid) ==
  /\ DictGet(o.labels, "ctfd.managed") = {"true"}
  /\ DictGet(o.labels, "ctfd.instance_uuid") # {}
  /\ DictGet(o.labels, "ctfd.instance_uuid") \cap valid = {}

\* C7: cleanup_expired_containers touches only managed containers whose
\* instance identifier is outside the list it was given: every other
\* container the runtime held, unmanaged or with a listed identifier, is
\* there unchanged during and after the sweep.
C7_SweepTakesOnlyExpired ==
  \A t \in Threads :
    LET f == fr[t]
    IN f.op = "cleanup_expired_containers"
       => \A c \in DOMAIN Settled(f.pre.containers) :
            ~Expired(f.pre.containers[c], f.args.instance_uuids)
            => /\ c \in DOMAIN containers
               /\ containers[c] = f.pre.containers[c]

\* a sweep removed an expired container and left a managed one with a
\* listed identifier and an unmanaged one with an unlisted identifier
C7_Witness ==
  \E t \in Threads :
    LET f == fr[t]
        valid == f.args.instance_uuids
        before == f.pre.containers
    IN /\ Done(f, "cleanup_expired_containers")
       /\ \E c \in DOMAIN before :
            Expired(before[c], valid) /\ c \notin DOMAIN containers
       /\ \E c \in DOMAIN before \cap DOMAIN containers :
            /\ DictGet(before[c].labels, "ctfd.managed") = {"true"}
            /\ DictGet(before[c].labels, "ctfd.instance_uuid") \cap valid # {}
       /\ \E c \in DOMAIN before \cap DOMAIN containers :
            /\ DictGet(before[c].labels, "ctfd.managed") = {}
            /\ DictGet(before[c].labels, "ctfd.instance_uuid") # {}
            /\ DictGet(before[c].labels, "ctfd.instance_uuid") \cap valid = {}

\* the arguments of stop_container_group that are a handle
\* create_container_group returned
IsHandle(a) ==
  \E h \in handles :
    /\ a.container_ids = h.container_ids
    /\ a.network_id = h.network_id
    /\ a.host_port = {h.port}

\* C8: create_container_group of n containers, one of them exposed, every
\* runtime call succeeding, returns a handle with n distinct container ids,
\* the entry container's id among them, the id of the network it created and
\* the port asked for; stop_container_group on that handle, every call
\* succeeding, returns True and leaves none of these containers, no such
\* network, no relay attachment to it and no tunnel route for the port.
C8_GroupRoundTrip ==
  \A t \in Threads :
    LET f == fr[t]
        a == f.args
        h == f.result.val
    IN /\ (/\ Done(f, "create_container_group")
           /\ f.result.kind = "return"
           /\ Cardinality({ k \in DOMAIN a.containers_config :
                              a.containers_config[k] }) = 1)
          => /\ Len(h.container_ids) = Len(a.containers_config)
             /\ Cardinality(Range(h.container_ids)) = Len(h.container_ids)
             /\ h.entry_container_id \in Range(h.container_ids)
             /\ \A c \in Range(h.container_ids) \cap DOMAIN containers :
                  DictGet(containers[c].labels, "ctfd.compose_role") = {"entry"}
                    <=> c = h.entry_container_id
             /\ Range(h.container_ids) \cap DOMAIN f.pre.containers = {}
             /\ Cardinality(h.network_id) = 1
             /\ \A n \in h.network_id :
                  /\ n \notin DOMAIN f.pre.networks
                  /\ n \in DOMAIN networks => networks[n].name = a.network_name
             /\ h.port = a.host_port
       /\ (/\ Done(f, "stop_container_group")
           /\ IsHandle(a)
           /\ f.connected
           /\ Failed(f) = {})
          => /\ f.result = [ kind |-> "return", val |-> TRUE ]
             /\ Range(a.container_ids) \cap DOMAIN containers = {}
             /\ a.network_id \cap DOMAIN networks = {}
             /\ a.network_id \cap relayNets = {}
             /\ a.host_port \cap DOMAIN routes = {}

\* a group of two was created and the teardown of its handle found, and
\* took, both containers, the network, the attachment and the route
C8_Witness ==
  \E t \in Threads :
    LET f == fr[t]
        a == f.args
    IN /\ Done(f, "stop_container_group")
       /\ IsHandle(a)
       /\ Failed(f) = {}
       /\ f.result = [ kind |-> "return", val |-> TRUE ]
       /\ Len(a.container_ids) = 2
       /\ Range(a.container_ids) \subseteq DOMAIN f.pre.containers
       /\ a.network_id \subseteq DOMAIN f.pre.networks
       /\ a.network_id \subseteq f.pre.relayNets
       /\ a.host_port \subseteq DOMAIN f.pre.routes

\* C9: a connection that failed at construction is not kept for good: a
\* method called while the runtime is reachable has a session.
C9_ConnectionRetried ==
  \A t \in Threads :
    (fr[t].op # "idle" /\ fr[t].reachable) => fr[t].connected

\* C10: every container and every network the service creates carries
\* ctfd.managed=true, whatever labels the caller passed.
C10_CreatedIsManaged ==
  /\ \A c \in DOMAIN containers :
       containers[c].origin # "external"
       => DictGet(containers[c].labels, "ctfd.managed") = {"true"}
  /\ \A n \in DOMAIN networks :
       DictGet(networks[n].labels, "ctfd.managed") = {"true"}

\* C11: every container the service starts, by create_container in any
\* networking mode or by create_container_group, is created with all
\* capabilities dropped, CHOWN, SETUID and SETGID re-added and privilege
\* escalation disallowed.
C11_EveryContainerHardened ==
  \A c \in DOMAIN containers :
    containers[c].origin # "external" => containers[c].hardened

\* the calls of the frame that found the network still in use
FoundInUse(f) ==
  { k \in DOMAIN f.calls :
      f.calls[k].call = "network.remove" /\ f.calls[k].out = "in_use" }

\* C12 as stated: a network removal that fails because the network is in
\* use is no failure: remove_network and stop_container_group do not raise
\* and do not return False on account of it alone.
C12_InUseIsNoFailure ==
  \A t \in Threads :
    LET f == fr[t]
    IN (/\ Done(f, "remove_network") \/ Done(f, "stop_container_group")
        /\ Failed(f) # {}
        /\ Failed(f) = FoundInUse(f))
       => /\ f.result.kind = "return"
          /\ f.result.val # FALSE

\* C12: a network removal that fails because the network is in use does not
\* make remove_network or stop_container_group raise; it is the last runtime
\* call of either, and both return False.
C12_InUseReturnsFalse ==
  \A t \in Threads :
    LET f == fr[t]
    IN (/\ Done(f, "remove_network") \/ Done(f, "stop_container_group")
        /\ FoundInUse(f) # {})
       => /\ f.result = [ kind |-> "return", val |-> FALSE ]
          /\ FoundInUse(f) = {Len(f.calls)}

\* a network was found in use, with no other call failing
C12_Witness ==
  \E t \in Threads :
    LET f == fr[t]
    IN /\ Done(f, "remove_network")
       /\ Failed(f) # {}
       /\ Failed(f) = FoundInUse(f)

\* a call that was handed the relay's id as a container id
TargetsRelay(f) ==
  \/ f.op = "stop_container" /\ f.args.container_id \in RelayIds
  \/ f.op = "stop_container_group"
     /\ Range(f.args.container_ids) \cap RelayIds # {}

\* C13: whatever the service is called to do, unless it is handed the
\* relay's id as a container id, no step of it creates, stops or removes the
\* relay: the relay stays the one container of its name, as it was.
C13_RelayNeverTouched ==
  [][ (\A t \in Threads : ~TargetsRelay(fr'[t]))
      => /\ \A r \in RelayIds :
              r \in DOMAIN containers' /\ containers'[r] = containers[r]
         /\ { c \in DOMAIN containers' : containers'[c].name = RelayName }
              = RelayIds ]_vars

\* a group was torn down through the relay (route unbound, relay
\* disconnected) and the relay is as it was
C13_Witness ==
  \E t \in Threads :
    LET f == fr[t]
    IN /\ Done(f, "stop_container_group")
       /\ ~TargetsRelay(f)
       /\ \E k \in DOMAIN f.calls :
            f.calls[k].call = "exec_run(off)" /\ f.calls[k].out = "ok"
       /\ \E k \in DOMAIN f.calls :
            f.calls[k].call = "network.disconnect" /\ f.calls[k].out = "ok"
       /\ \E r \in RelayIds : containers[r] = RelayContainer

\* the methods that change the runtime
MutatingOps ==
  {"create_container", "create_container_group", "stop_container",
   "stop_container_group", "create_network", "remove_network",
   "cleanup_expired_containers"}

\* the method found no live session when it was entered: there was no
\* client, or the ping failed
Disconnected(f) == f.calls = <<>> \/ f.calls[1].out # "ok"

\* C14: every mutating method probes the session before anything else; with
\* no live session it makes no further runtime call and leaves the runtime
\* as it was, the create methods raising 'Docker is not connected' and the
\* teardown and network methods returning False.
C14_ProbeFirst ==
  \A t \in Threads :
    LET f == fr[t]
    IN f.op \in MutatingOps
       => /\ f.calls # <<>> => f.calls[1].call = "ping"
          /\ Disconnected(f)
             => /\ Len(f.calls) <= 1
                /\ f.pc = "done"
                /\ Settled(containers) = Settled(f.pre.containers)
                /\ networks = f.pre.networks
                /\ relayNets = f.pre.relayNets
                /\ routes = f.pre.routes
                /\ f.op \in {"create_container", "create_container_group"}
                   => f.result = [ kind |-> "raise", val |-> NotConnected ]
                /\ f.op \in {"stop_container", "stop_container_group",
                              "create_network", "remove_network"}
                   => f.result = [ kind |-> "return", val |-> FALSE ]
                /\ f.op = "cleanup_expired_containers"
                   => f.result.kind = "return"

\* a group creation was refused because the ping failed, with a client at
\* hand
C14_Witness ==
  \E t \in Threads :
    LET f == fr[t]
    IN /\ Done(f, "create_container_group")
       /\ Len(f.calls) = 1
       /\ f.calls[1].out = "error"
       /\ f.result = [ kind |-> "raise", val |-> NotConnected ]

\* the containers a teardown call is after
Targets(f) ==
  CASE f.op = "stop_container" -> {f.args.container_id}
    [] f.op = "stop_container_group" -> Range(f.args.container_ids)
    [] f.op = "cleanup_expired_containers" ->
         { f.listed[j].id : j \in { k \in DOMAIN f.listed :
             Orphaned(f.listed[k], f.args.instance_uuids) } }
    [] OTHER -> {}

\* C15: stop_container_group, stop_container and cleanup_expired_containers
\* called by threads that interleave at every runtime call, over containers
\* they share, never raise; and once all have finished, the runtime having
\* failed no call on its own, no container any of them was after exists.
C15_ConcurrentTeardownConverges ==
  /\ \A t \in Threads : fr[t].pc = "done" => fr[t].result.kind = "return"
  /\ (/\ \A t \in Threads : Idle(t)
      /\ \A t \in Threads : fr[t].connected /\ Injected(fr[t]) = {})
     => \A t \in Threads : Targets(fr[t]) \cap DOMAIN containers = {}

\* a sweep and a group teardown have both finished, the sweep having found
\* a container of the group gone that it had listed
C15_Witness ==
  \E t, u \in Threads :
    LET f == fr[t]
        g == fr[u]
    IN /\ Done(f, "cleanup_expired_containers")
       /\ Done(g, "stop_container_group")
       /\ Injected(f) = {} /\ Injected(g) = {}
       /\ Targets(f) \cap Targets(g) # {}
       /\ \E k \in DOMAIN f.calls :
            f.calls[k].call = "container.stop" /\ f.calls[k].out = "notfound"
       /\ \E k \in DOMAIN g.calls :
            g.calls[k].call = "container.stop" /\ g.calls[k].out \in {"ok", "ok_gone"}

\* nothing of the handle a is in the runtime r
Clean(a, r) ==
  /\ Range(a.container_ids) \cap DOMAIN r.containers = {}
  /\ a.network_id \cap DOMAIN r.networks = {}
  /\ a.network_id \cap r.relayNets = {}
  /\ a.host_port \cap DOMAIN r.routes = {}

\* C16: stop_container_group called on a handle whose earlier teardown the
\* runtime failed in part, the runtime now failing no call, leaves none of
\* the handle's containers, no network and no route and returns True; called
\* on a handle of which nothing is left, it returns True and changes nothing.
C16_TeardownConverges ==
  \A t \in Threads :
    LET f == fr[t]
    IN (/\ Done(f, "stop_container_group")
        /\ IsHandle(f.args)
        /\ f.connected
        /\ Injected(f) = {})
       => /\ f.result = [ kind |-> "return", val |-> TRUE ]
          /\ Clean(f.args, Snapshot)
          /\ Clean(f.args, f.pre)
             => /\ Settled(containers) = Settled(f.pre.containers)
                /\ networks = f.pre.networks
                /\ relayNets = f.pre.relayNets
                /\ routes = f.pre.routes

\* the second teardown found the route unbound, a container gone, another
\* still there and the network in place, as a failed first one had left them
C16_Witness ==
  \E t \in Threads :
    LET f == fr[t]
        a == f.args
    IN /\ Done(f, "stop_container_group")
       /\ IsHandle(a)
       /\ Injected(f) = {}
       /\ f.result = [ kind |-> "return", val |-> TRUE ]
       /\ a.host_port \cap DOMAIN f.pre.routes = {}
       /\ Range(a.container_ids) \cap DOMAIN f.pre.containers # {}
       /\ ~(Range(a.container_ids) \subseteq DOMAIN f.pre.containers)
       /\ a.network_id \subseteq DOMAIN f.pre.networks
       /\ Clean(a, Snapshot)

\* a teardown ran on a handle of which nothing was left
C16_WitnessClean ==
  \E t \in Threads :
    LET f == fr[t]
    IN /\ Done(f, "stop_container_group")
       /\ IsHandle(f.args)
       /\ Injected(f) = {}
       /\ Clean(f.args, f.pre)

\* C17: create_network on a name that exists returns True without a create
\* call and leaves the network as it is, whatever settings it was called
\* with; and after a create_network that returned True there is exactly one
\* network of that name, so two calls in a row leave one.
C17_CreateNetworkIdempotent ==
  \A t \in Threads :
    LET f == fr[t]
        named(ns) == { n \in DOMAIN ns : ns[n].name = f.args.name }
    IN Done(f, "create_network")
       => /\ (f.connected /\ Injected(f) = {} /\ named(f.pre.networks) # {})
             => /\ f.result = [ kind |-> "return", val |-> TRUE ]
                /\ \A k \in DOMAIN f.calls : f.calls[k].call # "networks.create"
                /\ networks = f.pre.networks
          /\ f.result.val = TRUE => Cardinality(named(networks)) = 1

\* create_network was called on the name of a network whose internal flag
\* is not the one asked for
C17_Witness ==
  \E t \in Threads :
    LET f == fr[t]
    IN /\ Done(f, "create_network")
       /\ f.result = [ kind |-> "return", val |-> TRUE ]
       /\ \E n \in DOMAIN f.pre.networks :
            /\ f.pre.networks[n].name = f.args.name
            /\ f.pre.networks[n].internal # f.args.internal
            /\ n \in DOMAIN networks

\* the place of a compensating call in the order of the compensation
Phase(pc) ==
  CASE pc \in {"rb_unbind_get", "rb_unbind_exec"} -> 1
    [] pc \in {"rb_disc_get", "rb_disc"} -> 2
    [] pc \in {"rb_stop", "rb_remove"} -> 3
    [] pc = "rb_net_remove" -> 4

\* the calls of the frame made at one of the positions pcs, and those of
\* them answered by one of outs
CallsAt(f, pcs) == { k \in DOMAIN f.calls : f.calls[k].pc \in pcs }
AnsweredAt(f, pcs, outs) == { k \in CallsAt(f, pcs) : f.calls[k].out \in outs }

\* the compensating calls of a create_container_group come after every
\* creation call and in the order route unbind, relay disconnect, stop and
\* remove of the containers, network removal; the unbind is issued if and
\* only if the route was bound, the disconnect if and only if the relay was
\* joined, one stop for each container created, a remove after each stop
\* that succeeded, the network removal if and only if it was created
CompensationOrder(f) ==
  LET rb == CallsAt(f, RollbackPcs)
      bound == AnsweredAt(f, {"exec_serve"}, {"ok", "undecodable"}) # {}
      joined == AnsweredAt(f, {"connect"}, {"ok"}) # {}
      ran == AnsweredAt(f, {"run_internal", "run_entry"}, {"ok"})
      made == AnsweredAt(f, {"net_create"}, {"ok"}) # {}
  IN /\ \A j \in DOMAIN f.calls \ rb : \A k \in rb : j < k
     /\ \A j, k \in rb : j < k => Phase(f.calls[j].pc) <= Phase(f.calls[k].pc)
     /\ CallsAt(f, {"rb_unbind_get", "rb_unbind_exec"}) # {} => bound
     /\ CallsAt(f, {"rb_disc_get", "rb_disc"}) # {} => joined
     /\ Cardinality(CallsAt(f, {"rb_stop"})) <= Cardinality(ran)
     /\ \A k \in CallsAt(f, {"rb_remove"}) :
          /\ f.calls[k - 1].pc = "rb_stop"
          /\ f.calls[k - 1].out \in {"ok", "ok_gone"}
          /\ f.calls[k - 1].i = f.calls[k].i
     /\ CallsAt(f, {"rb_net_remove"}) # {} => made
     /\ (f.pc = "done" /\ f.result.kind = "raise" /\ f.connected)
        => /\ bound => CallsAt(f, {"rb_unbind_get"}) # {}
           /\ joined => CallsAt(f, {"rb_disc_get"}) # {}
           /\ { f.calls[k].i : k \in CallsAt(f, {"rb_stop"}) }
                = 1 .. Cardinality(ran)
           /\ \A k \in AnsweredAt(f, {"rb_stop"}, {"ok", "ok_gone"}) :
                k + 1 \in CallsAt(f, {"rb_remove"})
           /\ made => CallsAt(f, {"rb_net_remove"}) # {}

\* C18 as stated: the compensation of a failed create_container_group is
\* issued in strictly reverse order of creation: route unbind (only if
\* bound), relay disconnect (only if joined), stop and remove of the
\* containers, the last created first, network removal (only if created).
C18_StrictlyReverseOrder ==
  \A t \in Threads :
    LET f == fr[t]
    IN f.op = "create_container_group"
       => /\ CompensationOrder(f)
          /\ \A j, k \in CallsAt(f, {"rb_stop"}) :
               j < k => f.calls[j].i > f.calls[k].i

\* C18: the compensation of a failed create_container_group is issued in
\* the order route unbind (only if bound), relay disconnect (only if
\* joined), stop and remove of the containers, network removal (only if
\* created); the containers are taken in the order they were created, the
\* entry container last; no step that had not completed is compensated.
C18_CompensationInOrder ==
  \A t \in Threads :
    LET f == fr[t]
    IN f.op = "create_container_group"
       => /\ CompensationOrder(f)
          /\ \A j, k \in CallsAt(f, {"rb_stop"}) :
               j < k => f.calls[j].i < f.calls[k].i

\* a compensation went through its four parts, for two containers
C18_Witness ==
  \E t \in Threads :
    LET f == fr[t]
    IN /\ Done(f, "create_container_group")
       /\ f.result.kind = "raise"
       /\ CallsAt(f, {"rb_unbind_exec"}) # {}
       /\ CallsAt(f, {"rb_disc"}) # {}
       /\ Cardinality(CallsAt(f, {"rb_stop"})) = 2
       /\ Cardinality(CallsAt(f, {"rb_remove"})) = 2
       /\ CallsAt(f, {"rb_net_remove"}) # {}

\* the positions of create_container_group's creation, and their order
CreationPcs ==
  {"net_create", "run_internal", "run_entry", "get_relay", "connect",
   "exec_serve"}

Stage(pc) ==
  CASE pc = "net_create" -> 1
    [] pc = "run_internal" -> 2
    [] pc = "run_entry" -> 3
    [] pc = "get_relay" -> 4
    [] pc = "connect" -> 5
    [] pc = "exec_serve" -> 6

\* C19: the runtime calls by which create_container_group creates come in
\* the order network, non-entry containers, entry container, relay
\* attachment, route; each is made once, the non-entry containers one by one,
\* and only after all that precedes it has succeeded: the entry container is
\* the last container run, and the route is bound only with the entry
\* container run and the relay attached.
C19_CreationOrder ==
  \A t \in Threads :
    LET f == fr[t]
        cr == CallsAt(f, CreationPcs)
        cfg == f.args.containers_config
        ok(pc) == AnsweredAt(f, {pc}, {"ok"})
    IN f.op = "create_container_group"
       => /\ \A j, k \in cr :
               j < k => /\ Stage(f.calls[j].pc) <= Stage(f.calls[k].pc)
                        /\ f.calls[j].out = "ok"
                        /\ f.calls[j].pc = f.calls[k].pc
                           => /\ f.calls[j].pc = "run_internal"
                              /\ f.calls[j].i < f.calls[k].i
          /\ \A k \in CallsAt(f, {"run_internal"}) :
               f.calls[k].i \in DOMAIN cfg \ f.entry_idx
          /\ CallsAt(f, {"run_internal"}) # {} => ok("net_create") # {}
          /\ CallsAt(f, {"run_entry"}) # {}
             => Cardinality(ok("run_internal")) = Len(cfg) - 1
          /\ CallsAt(f, {"get_relay"}) # {} => ok("run_entry") # {}
          /\ CallsAt(f, {"connect"}) # {} => ok("get_relay") # {}
          /\ CallsAt(f, {"exec_serve"}) # {}
             => /\ ok("run_entry") # {}
                /\ ok("connect") # {}
                /\ Len(f.created_containers) = Len(cfg)

\* a group of two was created: one call at each position, in order
C19_Witness ==
  \E t \in Threads :
    LET f == fr[t]
    IN /\ Done(f, "create_container_group")
       /\ f.result.kind = "return"
       /\ Len(f.args.containers_config) = 2
       /\ [ k \in 2 .. Len(f.calls) |-> f.calls[k].pc ]
            = [ k \in 2 .. 7 |->
                  << "", "net_create", "run_internal", "run_entry", "get_relay",
                     "connect", "exec_serve" >>[k] ]

\* the positions of stop_container_group, and their order
TeardownStage(pc) ==
  CASE pc \in {"unbind_get", "unbind_exec"} -> 1
    [] pc \in {"get", "stop", "remove"} -> 2
    [] pc \in {"net_get", "relay_get", "disconnect"} -> 3
    [] pc = "net_remove" -> 4
    [] OTHER -> 0

\* C20: stop_container_group makes its runtime calls in the order route
\* unbind for the port given, stop and remove of each container id in turn,
\* relay disconnect, network removal: no unbind comes after a network
\* removal, and the network is looked up and removed only after every
\* container id has been tried.
C20_TeardownOrder ==
  \A t \in Threads :
    LET f == fr[t]
        a == f.args
        tried == { f.calls[k].i : k \in CallsAt(f, {"get"}) }
    IN f.op = "stop_container_group"
       => /\ \A j, k \in DOMAIN f.calls :
               j < k => /\ TeardownStage(f.calls[j].pc) <= TeardownStage(f.calls[k].pc)
                        /\ TeardownStage(f.calls[j].pc) = 2
                           /\ TeardownStage(f.calls[k].pc) = 2
                           => f.calls[j].i <= f.calls[k].i
          /\ CallsAt(f, {"unbind_get", "unbind_exec"}) # {} => a.host_port # {}
          /\ Cardinality(CallsAt(f, {"unbind_exec"})) <= 1
          /\ \A k \in CallsAt(f, {"stop"}) :
               f.calls[k - 1].pc = "get" /\ f.calls[k - 1].i = f.calls[k].i
          /\ \A k \in CallsAt(f, {"remove"}) :
               f.calls[k - 1].pc = "stop" /\ f.calls[k - 1].i = f.calls[k].i
          /\ \A k \in CallsAt(f, {"disconnect", "net_remove"}) :
               \E j \in AnsweredAt(f, {"net_get"}, {"ok"}) : j < k
          /\ CallsAt(f, {"net_get"}) # {} => tried = DOMAIN a.container_ids
          /\ (f.pc = "done" /\ f.connected)
             => /\ tried = DOMAIN a.container_ids
                /\ a.host_port # {} => CallsAt(f, {"unbind_get"}) # {}
                /\ a.network_id # {} => CallsAt(f, {"net_get"}) # {}

\* a teardown of two containers made every call of the sequence once
C20_Witness ==
  \E t \in Threads :
    LET f == fr[t]
    IN /\ Done(f, "stop_container_group")
       /\ [ k \in 2 .. Len(f.calls) |-> f.calls[k].pc ]
            = [ k \in 2 .. 13 |->
                  << "", "unbind_get", "unbind_exec", "get", "stop", "remove",
                     "get", "stop", "remove", "net_get", "relay_get",
                     "disconnect", "net_remove" >>[k] ]

\* the calls of stop_container_group whose failure it records: those on the
\* container ids and on the network, answered by an error that is not
\* NotFound
Recorded(f) ==
  { k \in CallsAt(f, {"get", "stop", "remove", "net_get", "net_remove"}) :
      f.calls[k].out \notin OkOuts }

\* C21: in stop_container_group an error on one container id does not end
\* the sequence: every id of the handle is tried exactly once and the
\* network part follows; ids not found, a relay not found and a failed route
\* unbind or relay disconnect leave the result True, and any other error on
\* a container id (or on the network) makes it False.
C21_TeardownGoesOn ==
  \A t \in Threads :
    LET f == fr[t]
        a == f.args
    IN (Done(f, "stop_container_group") /\ f.connected)
       => /\ \A i \in DOMAIN a.container_ids :
               Cardinality({ k \in CallsAt(f, {"get"}) : f.calls[k].i = i }) = 1
          /\ a.network_id # {} => Cardinality(CallsAt(f, {"net_get"})) = 1
          /\ AnsweredAt(f, {"net_get"}, {"ok"}) # {}
             => /\ Cardinality(CallsAt(f, {"relay_get"})) = 1
                /\ Cardinality(CallsAt(f, {"net_remove"})) = 1
          /\ AnsweredAt(f, {"relay_get"}, {"ok"}) # {}
             => Cardinality(CallsAt(f, {"disconnect"})) = 1
          /\ f.result.kind = "return"
          /\ f.result.val = (Recorded(f) = {})

\* the stop of the first of two containers failed; the second was stopped
\* and removed, the relay disconnected and the network removal tried; the
\* result is False
C21_Witness ==
  \E t \in Threads :
    LET f == fr[t]
        at(pc, i, out) ==
          \E k \in DOMAIN f.calls :
            f.calls[k].pc = pc /\ f.calls[k].i = i /\ f.calls[k].out = out
    IN /\ Done(f, "stop_container_group")
       /\ Len(f.args.container_ids) = 2
       /\ at("stop", 1, "error")
       /\ at("remove", 2, "ok")
       /\ CallsAt(f, {"disconnect"}) # {}
       /\ CallsAt(f, {"net_remove"}) # {}
       /\ f.result = [ kind |-> "return", val |-> FALSE ]

\* an id not found, a relay not found: the result is True
C21_WitnessTolerated ==
  \E t \in Threads :
    LET f == fr[t]
    IN /\ Done(f, "stop_container_group")
       /\ AnsweredAt(f, {"unbind_get"}, {"notfound"}) # {}
       /\ AnsweredAt(f, {"get"}, {"notfound"}) # {}
       /\ f.result = [ kind |-> "return", val |-> TRUE ]

\* C22: whenever stop_container_group returns True, whatever the
\* runtime failed, none of the container ids passed exists, the network
\* passed does not exist, and there is no tunnel route for the port passed.
C22_TrueMeansNothingLeft ==
  \A t \in Threads :
    LET f == fr[t]
    IN (/\ Done(f, "stop_container_group")
        /\ f.result = [ kind |-> "return", val |-> TRUE ])
       => Clean(f.args, Snapshot)

\* What a True of stop_container_group does tell (C22 without the route): none
\* of the container ids passed exists and the network passed does not exist,
\* nor an attachment of the relay to it; a tunnel route for the port passed
\* is left only if the unbind did not succeed.
C22_TrueMeansResourcesGone ==
  \A t \in Threads :
    LET f == fr[t]
        a == f.args
    IN (/\ Done(f, "stop_container_group")
        /\ f.result = [ kind |-> "return", val |-> TRUE ])
       => /\ Range(a.container_ids) \cap DOMAIN containers = {}
          /\ a.network_id \cap DOMAIN networks = {}
          /\ a.network_id \cap relayNets = {}
          /\ a.host_port \cap DOMAIN routes # {}
             => AnsweredAt(f, {"unbind_exec"}, {"ok"}) = {}

\* the unbind failed and the rest of the teardown went through: the result
\* is True, the containers and the network are gone, the route is there
C22_RouteLeft ==
  \E t \in Threads :
    LET f == fr[t]
        a == f.args
    IN /\ Done(f, "stop_container_group")
       /\ IsHandle(a)
       /\ f.result = [ kind |-> "return", val |-> TRUE ]
       /\ AnsweredAt(f, {"unbind_exec"}, {"error"}) # {}
       /\ Range(a.container_ids) \subseteq DOMAIN f.pre.containers
       /\ Range(a.container_ids) \cap DOMAIN containers = {}
       /\ a.network_id \subseteq DOMAIN f.pre.networks
       /\ a.network_id \cap DOMAIN networks = {}
       /\ a.host_port \subseteq DOMAIN routes

\* the containers of cs with an id of ids
Kept(cs, ids) == [ c \in DOMAIN cs \cap ids |-> cs[c] ]

\* the creation call that failed was refused because the name is taken
NameTaken(f) ==
  \E k \in CallsAt(f, {"net_create", "run_internal", "run_entry"}) :
    /\ f.calls[k].out = "api_error"
    /\ ~f.calls[k].injected

\* C23: once create_container_group has raised, everything the runtime held
\* when it was called is as it was: every container that existed, with its
\* attachments, every network that existed, every attachment of the relay to
\* one of them, every tunnel route, but the route of the port passed where
\* the invocation had bound that port itself; and when the creation was
\* refused because the network's or a container's name is taken, the routes
\* are all as they were.
C23_FailureKeepsForeign ==
  \A t \in Threads :
    LET f == fr[t]
        a == f.args
        pre == f.pre
        bound == AnsweredAt(f, {"exec_serve"}, {"ok", "undecodable"}) # {}
    IN (Done(f, "create_container_group") /\ f.result.kind = "raise")
       => /\ Settled(Kept(containers, DOMAIN pre.containers))
               = Settled(pre.containers)
          /\ \A n \in DOMAIN pre.networks :
               n \in DOMAIN networks /\ networks[n] = pre.networks[n]
          /\ relayNets \cap DOMAIN pre.networks = pre.relayNets
          /\ \A p \in DOMAIN pre.routes :
               \/ p \in DOMAIN routes /\ routes[p] = pre.routes[p]
               \/ p = a.host_port /\ bound
          /\ NameTaken(f) => routes = pre.routes

\* a group of the name of a running group was asked for under another
\* network name: the network was created, a container was refused for its
\* name, the network was removed again, and the running group is there with
\* its containers, its network, the relay's attachment and its route
C23_Witness ==
  \E t \in Threads :
    LET f == fr[t]
        a == f.args
    IN /\ Done(f, "create_container_group")
       /\ f.result.kind = "raise"
       /\ f.err.at = "containers.run"
       /\ NameTaken(f)
       /\ AnsweredAt(f, {"net_create"}, {"ok"}) # {}
       /\ AnsweredAt(f, {"rb_net_remove"}, {"ok"}) # {}
       /\ a.host_port \in DOMAIN f.pre.routes
       /\ a.host_port \in DOMAIN routes
       /\ {6, 7} \subseteq DOMAIN containers
       /\ 5 \in DOMAIN networks
       /\ 5 \in relayNets

\* the network name asked for is that of the running group's network: the
\* creation was refused, nothing was compensated, the group is untouched
C23_WitnessNetwork ==
  \E t \in Threads :
    LET f == fr[t]
        a == f.args
    IN /\ Done(f, "create_container_group")
       /\ f.result.kind = "raise"
       /\ f.err.at = "networks.create"
       /\ NameTaken(f)
       /\ NetworksNamed(a.network_name) # {}
       /\ Snapshot = f.pre
       /\ a.host_port \in DOMAIN routes

\* a stale route on the port passed: the invocation bound the port anew,
\* failed after that and unbound the port
C23_WitnessRebound ==
  \E t \in Threads :
    LET f == fr[t]
        a == f.args
    IN /\ Done(f, "create_container_group")
       /\ f.result.kind = "raise"
       /\ a.host_port \in DOMAIN f.pre.routes
       /\ a.host_port \notin DOMAIN routes

\* the handle h names a group that is up: its containers run, its network
\* is there with the relay attached, its route is bound
Live(h) ==
  /\ \A c \in Range(h.container_ids) :
       c \in DOMAIN containers /\ containers[c].status = "running"
  /\ h.network_id \subseteq DOMAIN networks
  /\ h.network_id \subseteq relayNets
  /\ h.port \in DOMAIN routes

\* C24: stop_container_group changes only what its arguments name: once it
\* has returned, whatever it returned and whatever the runtime failed, the
\* containers whose ids are not in container_ids, the networks other than
\* network_id, the relay's attachments to them and the tunnel routes of the
\* ports other than host_port are what they were when it was called, and
\* nothing was added.
C24_TeardownKeepsOthers ==
  \A t \in Threads :
    LET f == fr[t]
        a == f.args
        pre == f.pre
        others == DOMAIN pre.containers \ Range(a.container_ids)
    IN Done(f, "stop_container_group")
       => /\ Settled(Kept(containers, others)) = Settled(Kept(pre.containers, others))
          /\ DOMAIN containers \subseteq DOMAIN pre.containers
          /\ \A n \in DOMAIN pre.networks \ a.network_id :
               n \in DOMAIN networks /\ networks[n] = pre.networks[n]
          /\ DOMAIN networks \subseteq DOMAIN pre.networks
          /\ relayNets \ a.network_id = pre.relayNets \ a.network_id
          /\ \A p \in DOMAIN pre.routes \ a.host_port :
               p \in DOMAIN routes /\ routes[p] = pre.routes[p]
          /\ DOMAIN routes \subseteq DOMAIN pre.routes

\* one of two live groups was torn down, all of it, and the other group, of
\* other ids and another port, is live as before
C24_Witness ==
  \E t \in Threads :
    LET f == fr[t]
        a == f.args
    IN /\ Done(f, "stop_container_group")
       /\ IsHandle(a)
       /\ f.result = [ kind |-> "return", val |-> TRUE ]
       /\ Range(a.container_ids) \subseteq DOMAIN f.pre.containers
       /\ a.host_port \subseteq DOMAIN f.pre.routes
       /\ Clean(a, Snapshot)
       /\ \E h \in handles :
            /\ Range(h.container_ids) \cap Range(a.container_ids) = {}
            /\ h.network_id \cap a.network_id = {}
            /\ h.port \notin a.host_port
            /\ Live(h)

====
